---- MODULE Spec2Model ----
(***************************************************************************)
(* Caesar.  Signer: the SessionManager (internal/signer/session.go) and   *)
(* the gRPC handler in front of it (internal/signer/handler.go).  Market   *)
(* data: the CircuitBreaker, the Broadcaster and the RedisWriter of        *)
(* internal/adapter, each under a specification of its own further down.   *)
(*                                                                         *)
(* Every SignOrder call runs on its own goroutine (a member of Procs). The *)
(* SessionManager's fields are guarded by sm.mu; Sign is split at the one  *)
(* place where it reads valueUsed (line 123) and writes it (line 154), so  *)
(* that the lock, and not the step granularity, is what keeps the critical *)
(* section atomic.  Time is a discrete wall clock.                         *)
(***************************************************************************)
EXTENDS Integers, Sequences, FiniteSets, TLC

\* ---------------------------------------------------------------- bounds
MaxTime == 3         \* the clock stops advancing here
MaxCalls == 3        \* SignOrder requests over a run
SessionTTL == 1      \* sm.ttl, in clock ticks
CbMaxTime == 6       \* the breaker's clock stops advancing here
HubMaxUpdates == 3   \* BookUpdates the adapters emit over a run
FilteredCap == 1     \* buffer of a Subscribe channel (256 in the code)
UnifiedCap == 2      \* buffer of a SubscribeAll channel (512 in the code)
WriterMaxUpdates == 3 \* BookUpdates that reach the RedisWriter over a run
BufCap == 2          \* rw.buf (1024 in the code)
BookMaxUpdates == 3  \* BookUpdates that reach the UnifiedBook over a run
EventsCap == 1       \* ub.events (256 in the code)
MaxTunnels == 2      \* tunnels opened over a run
StreamCap == 1       \* buffer of a WSClient Subscribe channel (512 in the code)
OutboxCap == 1       \* ws.outbox (256 in the code)
MaxFailedDials == 8  \* dials that fail in one reconnect before one succeeds
MaxWireFrames == 2   \* frames a decoder's WSClient reads over a run
KaMaxMsgs == 3       \* snapshots and deltas the KalshiAdapter handles over a run
KaUpdatesCap == 1    \* ka.updates (1024 in the code)
VMaxCalls == 2       \* Validate calls made on one order

\* CircuitBreakerConfig defaults in ticks of 500 ms
StaleThreshold == 2
CoolOff == 4

\* DefaultWSConfig, in ms
BackoffInitial == 50
BackoffMax == 5000
BackoffFactor == 2

\* ub.threshold in cents, the 0.10 of TestUnifiedBook_NoArbitrageBelowThreshold
Threshold == 10

\* two SignOrder calls in flight at once
Procs == {1, 2}
\* two session keys, enough to tell one session's address from another's
Keys == {1, 2}

\* maker_amount strings a client may send, and session limits an operator may set
MakerAmounts == {"100000000", "1000000", "250000000", "-1000000", "abc"}
MaxLimits == {1000000, 200000000}
\* the SignOrderRequest shapes: a well-formed request for each maker_amount,
\* and one request per malformation of an otherwise well-formed request
WellFormed(m) == [order |-> TRUE, domain |-> TRUE, maker |-> m, taker |-> "50000000", token |-> "7"]
Requests ==
    {WellFormed(m) : m \in MakerAmounts}
        \cup {[WellFormed("1000000") EXCEPT !.order = FALSE, !.maker = "", !.taker = "", !.token = ""],
              [WellFormed("1000000") EXCEPT !.domain = FALSE],
              [WellFormed("1000000") EXCEPT !.taker = "1e6"],
              [WellFormed("1000000") EXCEPT !.token = "0x1f"]}

\* the adapters, one per venue, the markets each reports, and the hub's
\* subscribers
Adapters == {"polymarket", "kalshi"}
Emits(a) == IF a = "polymarket" THEN {<<a, "mkt-A">>, <<a, "mkt-B">>} ELSE {<<a, "mkt-K">>}
HubKeys == UNION {Emits(a) : a \in Adapters}
FilteredSubs == {"f1", "f2"}
UnifiedSubs == {"u1"}
Subscribers == FilteredSubs \cup UnifiedSubs

\* the BookUpdates the writer is fed: two markets, prices in cents, books
\* that differ in their levels but not always in their best price
WriterMarkets == {<<"kalshi", "FED-DEC">>, <<"polymarket", "mkt-A">>}
BidBooks == {<<48>>, <<48, 50>>, <<50, 48>>}
AskBooks == {<<>>, <<54>>, <<56, 54>>}
WriterUpdates == [key : WriterMarkets, bids : BidBooks, asks : AskBooks]
RedisKeys == {<<"book", k[1], k[2]>> : k \in WriterMarkets}

\* venues and markets the breaker sees
Venues == {"polymarket"}
CbMarkets == {"mkt-1", "mkt-2"}
CbKeys == Venues \X CbMarkets

VARIABLES
    mu,             \* sm.mu: 0 when free, else the goroutine holding it exclusively
    enclave,        \* sm.enclave: Nil or the sealed key
    address,        \* sm.address: 0 for "", else the derived address
    expiresAt,      \* sm.expiresAt
    maxValueLimit,  \* sm.maxValueLimit: Nil or <<limit>>
    valueUsed,      \* sm.valueUsed
    now,            \* time.Now()
    pc,             \* per goroutine: where its handler call stands
    local,          \* per goroutine: locals of the call in progress
    resp,           \* the response the step just taken returned; NoResp when it returned none
    calls,          \* SignOrder requests issued so far
    approvedSum,    \* sum of orderValue over the Sign calls of this session that returned a signature
    req             \* the SignOrderRequest the step just taken received: Nil or <<request>>

sessionVars == <<enclave, address, expiresAt, maxValueLimit, valueUsed>>
\* CircuitBreaker (internal/adapter/circuit_breaker.go)
VARIABLES
    cbNow,          \* cb.nowFunc()
    halted,         \* cb.halted
    conns,          \* cb.conns: per venue "none", or the Circuit() of the WSClient registered
    markets,        \* cb.markets: per key Nil or <<marketState>>
    recovered,      \* per key: RecoveredAt was set by an update that followed MarkStale
    cbResult,       \* what the CanTrade call just made returned: Nil or <<key, result>>
    cbPc            \* Run inside recordUpdate between lines 357 and 364, holding cb.mu: Nil or <<key>>

\* Broadcaster (internal/adapter/broadcaster.go)
VARIABLES
    sources,        \* b.sources: the adapters registered
    hubRunning,     \* Run has started its workers
    srcQ,           \* per adapter: its Updates() channel
    emitted,        \* per adapter: BookUpdates it has sent so far
    wpc,            \* per worker: "recv", "filtered" (distribute's first loop) or "all" (its second)
    cur,            \* per worker: the update in hand
    subs,           \* per subscriber: Nil or <<key>>; key is "all" for SubscribeAll
    sent,           \* per subscriber: every update ever put on its channel, in order
    read            \* per subscriber: how many of them it has taken off

\* RedisWriter (internal/adapter/redis_writer.go)
VARIABLES
    buf,            \* rw.buf
    last,           \* rw.last: per Redis key Nil or <<Bid, Ask>>, the strings last written
    hsets,          \* per Redis key: HSet calls issued
    wrote,          \* the HSet the step just taken issued: Nil or <<key, bid, ask>>
    lastBook,       \* per Redis key: Nil or <<bids, asks>> of the last update write() was given
    fed,            \* updates received from the feed so far
    cache           \* the Redis hash per key: Nil or <<bid, ask>> of the last HSet that succeeded

\* UnifiedBook (internal/adapter/unified_book.go), one registered pair
VARIABLES
    states,         \* ub.states[pair.Name]: per exchange the side last stored
    cons,           \* per consumeSide goroutine: where it stands and the poly, kalshi copies it took
    events,         \* ub.events
    bookFed         \* updates the two subscriptions have delivered so far

\* TunnelManager (internal/adapter/tunnel.go) and the WSClient of each tunnel
VARIABLES
    tunnels,        \* tm.tunnels: per key Nil or <<tunnel>>
    tun,            \* every Tunnel made so far, in order: its key, its WSClient's stream and outbox
    tmCalls,        \* per caller: Nil or the TunnelManager call it is inside
    tmResult        \* the error the Send that just returned gave back: Nil or <<error, key>>

\* WSClient (internal/adapter/ws_client.go), one client
VARIABLES
    circuit,        \* ws.circuit
    conn,           \* the socket ws.conn points to: "nil", "up", "silent", "broken" or "closed"
    rl,             \* readLoop: "off", "read", "wait" (reconnect's select), "dial" or "done"
    delay,          \* reconnect's delay, in ms
    failed,         \* dials that have failed in the reconnect under way
    ctxDone,        \* the context given to Connect is cancelled
    wsOutbox,       \* frames waiting in ws.outbox
    wsErr           \* the error the step just taken logged: Nil, <<"read">> or <<"write">>

\* PolyAdapter and KalshiAdapter (internal/adapter/poly, internal/adapter/kalshi),
\* each on a WSClient of its own
VARIABLES
    dec             \* per decoder: which of New, Run and ws.Connect have happened, whether its
                    \* channel is in ws.subs, the frames readLoop has read, those on the
                    \* channel, and whether a frame was fanned out while the decoder existed
                    \* and its channel was not there

\* KalshiAdapter's order books (internal/adapter/kalshi/adapter.go)
VARIABLES
    books,          \* ka.books: per ticker Nil or <<orderBook>>
    updates,        \* ka.updates
    kaMsg,          \* the message handleMessage has just handled: Nil or <<message>>
    kaFed           \* messages handled so far

\* Validator (internal/engine): one order going through Validate
VARIABLES
    order,          \* the *Order the caller holds: Nil or <<order>>
    vres            \* the Validate call just made on it: calls so far, error returned, whether
                    \* gate.CanTrade was asked and what it answered

\* WSClient.Close running against readLoop (internal/adapter/ws_client.go)
VARIABLES
    cpc,            \* where Close is: <<statement, subscriber index>>
    rpc,            \* where the readLoop goroutine is: <<statement, subscriber index>>
    wsConn,         \* the socket ws.conn points to: "up" or "closed"
    subCh,          \* per subscriber channel: closed or not, frames buffered
    doneCh          \* times ws.done has been closed

\* a decoder's market subscriptions across reconnects of its WSClient
VARIABLES
    asked,          \* tickers Subscribe has been called for
    subOutbox,      \* subscribe commands waiting in ws.outbox
    link,           \* the socket ws.conn points to: "up" or "closed"
    venueSubs,      \* tickers the venue streams on the connection in place
    sentOn,         \* tickers whose subscription reached the venue on some connection
    streamed        \* tickers a frame has arrived for on the connection in place

signerVars == <<mu, enclave, address, expiresAt, maxValueLimit, valueUsed, now, pc, local, resp, calls, approvedSum, req>>
breakerVars == <<cbNow, halted, conns, markets, recovered, cbResult, cbPc>>
hubVars == <<sources, hubRunning, srcQ, emitted, wpc, cur, subs, sent, read>>
writerVars == <<buf, last, hsets, wrote, lastBook, fed, cache>>
bookVars == <<states, cons, events, bookFed>>
tunnelVars == <<tunnels, tun, tmCalls, tmResult>>
wsVars == <<circuit, conn, rl, delay, failed, ctxDone, wsOutbox, wsErr>>
decoderVars == <<dec>>
kalshiVars == <<books, updates, kaMsg, kaFed>>
validatorVars == <<order, vres>>
shutdownVars == <<cpc, rpc, wsConn, subCh, doneCh>>
resubVars == <<asked, subOutbox, link, venueSubs, sentOn, streamed>>
notSigner == <<breakerVars, hubVars, writerVars, bookVars, tunnelVars, wsVars, decoderVars, kalshiVars, validatorVars, shutdownVars, resubVars>>
notBreaker == <<signerVars, hubVars, writerVars, bookVars, tunnelVars, wsVars, decoderVars, kalshiVars, validatorVars, shutdownVars, resubVars>>
notHub == <<signerVars, breakerVars, writerVars, bookVars, tunnelVars, wsVars, decoderVars, kalshiVars, validatorVars, shutdownVars, resubVars>>
notWriter == <<signerVars, breakerVars, hubVars, bookVars, tunnelVars, wsVars, decoderVars, kalshiVars, validatorVars, shutdownVars, resubVars>>
notBook == <<signerVars, breakerVars, hubVars, writerVars, tunnelVars, wsVars, decoderVars, kalshiVars, validatorVars, shutdownVars, resubVars>>
notTunnel == <<signerVars, breakerVars, hubVars, writerVars, bookVars, wsVars, decoderVars, kalshiVars, validatorVars, shutdownVars, resubVars>>
notWs == <<signerVars, breakerVars, hubVars, writerVars, bookVars, tunnelVars, decoderVars, kalshiVars, validatorVars, shutdownVars, resubVars>>
notDecoder == <<signerVars, breakerVars, hubVars, writerVars, bookVars, tunnelVars, wsVars, kalshiVars, validatorVars, shutdownVars, resubVars>>
notKalshi == <<signerVars, breakerVars, hubVars, writerVars, bookVars, tunnelVars, wsVars, decoderVars, validatorVars, shutdownVars, resubVars>>
notValidator == <<signerVars, breakerVars, hubVars, writerVars, bookVars, tunnelVars, wsVars, decoderVars, kalshiVars, shutdownVars, resubVars>>
notShutdown == <<signerVars, breakerVars, hubVars, writerVars, bookVars, tunnelVars, wsVars, decoderVars, kalshiVars, validatorVars, resubVars>>
notResub == <<signerVars, breakerVars, hubVars, writerVars, bookVars, tunnelVars, wsVars, decoderVars, kalshiVars, validatorVars, shutdownVars>>
vars == <<signerVars, breakerVars, hubVars, writerVars, bookVars, tunnelVars, wsVars, decoderVars, kalshiVars, validatorVars, shutdownVars, resubVars>>

\* ------------------------------------------------------- values and helpers
Nil == <<>>

ErrNoActiveSession == "no active session"
ErrSessionExpired == "session expired"
ErrValueLimitExceeded == "cumulative value limit exceeded"
ErrOpenEnclave == "open enclave"
NoErr == "nil"

\* big.Int.SetString(s, 10): <<value>> when s is an optionally signed run of
\* decimal digits, Nil (ok = false) otherwise.
SetString(s) ==
    CASE s = "100000000" -> <<100000000>>
      [] s = "1000000" -> <<1000000>>
      [] s = "250000000" -> <<250000000>>
      [] s = "-1000000" -> <<-1000000>>
      [] s = "50000000" -> <<50000000>>
      [] s = "7" -> <<7>>
      [] OTHER -> Nil

\* crypto.PubkeyToAddress(privKey.PublicKey).Hex(): injective, never "".
PubkeyToAddress(k) == 2 * k + 1

\* memguard.NewEnclave(keyBytes) and Enclave.Open().
NewEnclave(k) == <<k>>
Open(e) == e[1]

\* crypto.Sign(digest, privKey): the signature binds the key and the digest,
\* of which the order's makerAmount is a field.  Ecrecover gives the address
\* of the key that signed.
Sign(k, orderValue) == <<k, orderValue>>
Ecrecover(sig) == PubkeyToAddress(sig[1])

NoLocal == [orderValue |-> 0, newTotal |-> 0, sig |-> Nil]
NoResp == [op |-> "none", code |-> "none", err |-> NoErr, orderValue |-> 0, sig |-> Nil, addr |-> 0,
           active |-> FALSE, ttl |-> 0, max |-> "0", used |-> "0"]

\* ------------------------------------------------------------ SessionManager
isExpired == now > expiresAt

LimitExceeded_PerOrder(orderValue) == orderValue > maxValueLimit[1]

LimitExceeded_Strict(orderValue) == valueUsed + orderValue >= maxValueLimit[1]

\* newTotal.Cmp(sm.maxValueLimit) > 0
LimitExceeded(orderValue) == valueUsed + orderValue > maxValueLimit[1]

SignError_LimitFirst(orderValue) ==
    IF enclave = Nil THEN ErrNoActiveSession
    ELSE IF LimitExceeded(orderValue) THEN ErrValueLimitExceeded
    ELSE IF isExpired THEN ErrSessionExpired
    ELSE NoErr

\* The three checks of Sign, in the order the code makes them.
SignError(orderValue) ==
    IF enclave = Nil THEN ErrNoActiveSession
    ELSE IF isExpired THEN ErrSessionExpired
    ELSE IF LimitExceeded(orderValue) THEN ErrValueLimitExceeded
    ELSE NoErr

CanLock_NoExclusion == TRUE

\* sm.mu.Lock() / sm.mu.RLock() return only while no goroutine holds the
\* lock exclusively.  Readers hold it for one atomic read, so only the
\* exclusive holder is tracked.
CanLock == mu = 0

destroyLocked ==
    /\ enclave' = Nil
    /\ address' = 0
    /\ valueUsed' = 0
    /\ maxValueLimit' = Nil
    /\ UNCHANGED expiresAt

SignFails_CommitsFirst(err, v) ==
    IF err = ErrSessionExpired THEN destroyLocked
    ELSE IF err = ErrOpenEnclave
         THEN valueUsed' = valueUsed + v /\ UNCHANGED <<enclave, address, expiresAt, maxValueLimit>>
         ELSE UNCHANGED sessionVars

\* What an error return of Sign leaves behind: the session is destroyed when
\* it has expired, and every other error return touches no field.
SignFails(err, v) ==
    IF err = ErrSessionExpired THEN destroyLocked ELSE UNCHANGED sessionVars

Inactive == [active |-> FALSE, ttl |-> 0, max |-> "0", used |-> "0", addr |-> 0]

\* SessionManager.Status, evaluated under the read lock.
Status ==
    IF enclave = Nil THEN Inactive
    ELSE IF isExpired THEN Inactive
    ELSE [active |-> TRUE,
          ttl |-> IF expiresAt - now < 0 THEN 0 ELSE expiresAt - now,
          max |-> ToString(maxValueLimit[1]),
          used |-> ToString(valueUsed),
          addr |-> address]

\* ------------------------------------------------------------------ Handler
StatusCode_LimitAsPrecondition(err) ==
    CASE err = ErrNoActiveSession -> "FailedPrecondition"
      [] err = ErrSessionExpired -> "FailedPrecondition"
      [] err = ErrValueLimitExceeded -> "FailedPrecondition"
      [] OTHER -> "Internal"

\* The switch of Handler.SignOrder on the error Sign returned.
StatusCode(err) ==
    CASE err = ErrNoActiveSession -> "FailedPrecondition"
      [] err = ErrSessionExpired -> "FailedPrecondition"
      [] err = ErrValueLimitExceeded -> "ResourceExhausted"
      [] OTHER -> "Internal"

SignFailed(err, v) ==
    [NoResp EXCEPT !.op = "SignOrder", !.code = StatusCode(err), !.err = err, !.orderValue = v]

\* ------------------------------------------------------------------ actions
SignerStart ==
    /\ mu = 0
    /\ enclave = Nil
    /\ address = 0
    /\ expiresAt = 0
    /\ maxValueLimit = Nil
    /\ valueUsed = 0
    /\ now = 1
    /\ pc = [p \in Procs |-> "idle"]
    /\ local = [p \in Procs |-> NoLocal]
    /\ resp = NoResp
    /\ calls = 0
    /\ approvedSum = 0
    /\ req = Nil

Tick ==
    /\ now < MaxTime
    /\ now' = now + 1
    /\ resp' = NoResp
    /\ UNCHANGED <<mu, sessionVars, pc, local, calls, approvedSum>>
    /\ req' = Nil
    /\ UNCHANGED notSigner

\* SessionManager.Activate with a key crypto.ToECDSA accepts.  With a key it
\* rejects the call returns before touching any field.
Activate ==
    /\ CanLock
    /\ \E k \in Keys, m \in MaxLimits :
        /\ enclave' = NewEnclave(k)
        /\ expiresAt' = now + SessionTTL
        /\ maxValueLimit' = <<m>>
        /\ valueUsed' = 0
        /\ address' = PubkeyToAddress(k)
    /\ approvedSum' = 0
    /\ resp' = NoResp
    /\ UNCHANGED <<mu, now, pc, local, calls>>
    /\ req' = Nil
    /\ UNCHANGED notSigner

\* SessionManager.Destroy
Destroy ==
    /\ CanLock
    /\ destroyLocked
    /\ approvedSum' = 0
    /\ resp' = NoResp
    /\ UNCHANGED <<mu, now, pc, local, calls>>
    /\ req' = Nil
    /\ UNCHANGED notSigner

\* Handler.SignOrder, lines 29-41: a request without order or without domain,
\* or whose maker_amount is no decimal integer, is refused before Sign is
\* called.
SignOrderInvalid(p) ==
    /\ pc[p] = "idle"
    /\ calls < MaxCalls
    /\ calls' = calls + 1
    /\ \E r \in Requests :
        /\ ~r.order \/ ~r.domain \/ SetString(r.maker) = Nil
        /\ req' = <<r>>
        /\ resp' = [NoResp EXCEPT !.op = "SignOrder", !.code = "InvalidArgument"]
    /\ UNCHANGED <<mu, sessionVars, now, pc, local, approvedSum>>
    /\ UNCHANGED notSigner

\* Handler.SignOrder calling Sign, session.go lines 110-151: the lock is
\* taken, the three checks are made, then the enclave is opened and the
\* digest signed.  Every error return releases the lock (defer) and the
\* handler turns the error into a status code.  token_id and taker_amount go
\* through SetString at lines 50-57 with the result dropped, so a string that
\* does not parse stops nothing.  fault is enclave.Open (or
\* the signing itself) failing.  A call still waiting for the lock is a call
\* that has not happened yet.
SignChecks(p) ==
    /\ pc[p] = "idle"
    /\ calls < MaxCalls
    /\ calls' = calls + 1
    /\ CanLock
    /\ \E r \in Requests, fault \in BOOLEAN :
        /\ r.order /\ r.domain /\ SetString(r.maker) # Nil
        /\ req' = <<r>>
        /\ LET v == SetString(r.maker)[1]
               err == IF SignError(v) # NoErr THEN SignError(v)
                      ELSE IF fault THEN ErrOpenEnclave ELSE NoErr
           IN  IF err # NoErr
               THEN /\ SignFails(err, v)
                    /\ approvedSum' = IF err = ErrSessionExpired THEN 0 ELSE approvedSum
                    /\ resp' = SignFailed(err, v)
                    /\ UNCHANGED <<mu, pc, local>>
               ELSE /\ local' = [local EXCEPT ![p] = [orderValue |-> v,
                                                      newTotal |-> valueUsed + v,
                                                      sig |-> Sign(Open(enclave), v)]]
                    /\ mu' = p
                    /\ pc' = [pc EXCEPT ![p] = "Sign_commit"]
                    /\ resp' = NoResp
                    /\ UNCHANGED <<sessionVars, approvedSum>>
    /\ UNCHANGED now
    /\ UNCHANGED notSigner

\* Sign, lines 153-156: sm.valueUsed.Set(newTotal); return sig, nil.
SignCommit(p) ==
    /\ pc[p] = "Sign_commit"
    /\ valueUsed' = local[p].newTotal
    /\ approvedSum' = approvedSum + local[p].orderValue
    /\ mu' = 0
    /\ pc' = [pc EXCEPT ![p] = "Status_call"]
    /\ resp' = NoResp
    /\ UNCHANGED <<enclave, address, expiresAt, maxValueLimit, now, local, calls>>
    /\ req' = Nil
    /\ UNCHANGED notSigner

\* Handler.SignOrder, lines 88-94: the address is read back with a second
\* call, h.session.Status(), after Sign has released the lock.
SignOrderRespond(p) ==
    /\ pc[p] = "Status_call"
    /\ CanLock
    /\ resp' = [NoResp EXCEPT !.op = "SignOrder", !.code = "OK",
                              !.orderValue = local[p].orderValue,
                              !.sig = local[p].sig, !.addr = Status.addr]
    /\ pc' = [pc EXCEPT ![p] = "idle"]
    /\ local' = [local EXCEPT ![p] = NoLocal]
    /\ UNCHANGED <<mu, sessionVars, now, calls, approvedSum>>
    /\ req' = Nil
    /\ UNCHANGED notSigner

\* Handler.GetSessionStatus
GetSessionStatus ==
    /\ CanLock
    /\ resp' = [NoResp EXCEPT !.op = "GetSessionStatus", !.code = "OK",
                              !.active = Status.active, !.ttl = Status.ttl,
                              !.max = Status.max, !.used = Status.used,
                              !.addr = Status.addr]
    /\ UNCHANGED <<mu, sessionVars, now, pc, local, calls, approvedSum>>
    /\ req' = Nil
    /\ UNCHANGED notSigner

Next ==
    \/ Tick
    \/ Activate
    \/ Destroy
    \/ GetSessionStatus
    \/ \E p \in Procs : SignOrderInvalid(p)
    \/ \E p \in Procs : SignChecks(p)
    \/ \E p \in Procs : SignCommit(p)
    \/ \E p \in Procs : SignOrderRespond(p)

\* ---------------------------------------------------------- circuit breaker
\* One tick of cbNow is 500 ms.  The zero time.Time is 0; the clock starts
\* at 1.  CanTrade takes haltMu, connMu and mu one after the other; each
\* call is taken as reading the three at one instant.  It holds cb.mu only
\* to fetch the *marketState and reads LastUpdate and RecoveredAt after
\* releasing it, while recordUpdate writes them under the lock: a call may
\* see a market between recordUpdate's two writes.
NoMarket == Nil
MarketOf(k) == markets[k][1]

CanTrade_IgnoresStaleness(k) ==
    IF halted THEN FALSE
    ELSE IF conns[k[1]] = "CircuitOpen" THEN FALSE
    ELSE IF markets[k] = NoMarket THEN FALSE
    ELSE IF MarketOf(k).RecoveredAt # 0 /\ cbNow - MarketOf(k).RecoveredAt < CoolOff THEN FALSE
    ELSE TRUE

\* CircuitBreaker.CanTrade, the four checks in the order of the code
CanTrade(k) ==
    IF halted THEN FALSE
    ELSE IF conns[k[1]] = "CircuitOpen" THEN FALSE
    ELSE IF markets[k] = NoMarket THEN FALSE
    ELSE IF cbNow - MarketOf(k).LastUpdate > StaleThreshold THEN FALSE
    ELSE IF MarketOf(k).RecoveredAt # 0 /\ cbNow - MarketOf(k).RecoveredAt < CoolOff THEN FALSE
    ELSE TRUE

\* recordUpdate, lines 360-368: RecoveredAt moves only when the market was
\* not healthy before the update.
RecoveredAtAfter_EveryUpdate(ms) == cbNow
RecoveredAtAfter_FirstUpdateExempt(ms) == IF ms.LastUpdate = 0 THEN 0 ELSE IF ~ms.Healthy THEN cbNow ELSE ms.RecoveredAt
RecoveredAtAfter(ms) == IF ~ms.Healthy THEN cbNow ELSE ms.RecoveredAt

BreakerStart ==
    /\ cbNow = 1
    /\ halted = FALSE
    /\ conns = [v \in Venues |-> "none"]
    /\ markets = [k \in CbKeys |-> NoMarket]
    /\ recovered = [k \in CbKeys |-> FALSE]
    /\ cbResult = Nil
    /\ cbPc = Nil

CbTick ==
    /\ cbNow < CbMaxTime
    /\ cbNow' = cbNow + 1
    /\ cbResult' = Nil
    /\ UNCHANGED <<halted, conns, markets, recovered, cbPc>>
    /\ UNCHANGED notBreaker

\* CircuitBreaker.WatchConnection: the WSClient handed over is connected or
\* reconnecting.
WatchConnection(v) ==
    /\ conns[v] = "none"
    /\ \E c \in {"CircuitClosed", "CircuitOpen"} : conns' = [conns EXCEPT ![v] = c]
    /\ cbResult' = Nil
    /\ UNCHANGED <<cbNow, halted, markets, recovered, cbPc>>
    /\ UNCHANGED notBreaker

\* WSClient.reconnect, first line: the connection is lost
CircuitOpens(v) ==
    /\ conns[v] = "CircuitClosed"
    /\ conns' = [conns EXCEPT ![v] = "CircuitOpen"]
    /\ cbResult' = Nil
    /\ UNCHANGED <<cbNow, halted, markets, recovered, cbPc>>
    /\ UNCHANGED notBreaker

\* WSClient.reconnect, after a dial that succeeded
CircuitCloses(v) ==
    /\ conns[v] = "CircuitOpen"
    /\ conns' = [conns EXCEPT ![v] = "CircuitClosed"]
    /\ cbResult' = Nil
    /\ UNCHANGED <<cbNow, halted, markets, recovered, cbPc>>
    /\ UNCHANGED notBreaker

ManualHalt ==
    /\ halted' = TRUE
    /\ cbResult' = Nil
    /\ UNCHANGED <<cbNow, conns, markets, recovered, cbPc>>
    /\ UNCHANGED notBreaker

Resume ==
    /\ halted' = FALSE
    /\ cbResult' = Nil
    /\ UNCHANGED <<cbNow, conns, markets, recovered, cbPc>>
    /\ UNCHANGED notBreaker

\* CircuitBreaker.Run taking a BookUpdate for k off the feed: recordUpdate.
\* A market that is new cannot be seen before the lock is released, and for
\* one that was healthy LastUpdate is the only field that changes.  For one
\* that was not healthy this is the first write, lines 356-360.
recordUpdate(k) ==
    /\ cbPc = Nil
    /\ LET ms == IF markets[k] = NoMarket
                 THEN [LastUpdate |-> 0, RecoveredAt |-> 0, Healthy |-> FALSE]
                 ELSE MarketOf(k)
       IN  IF markets[k] = NoMarket \/ ms.Healthy
           THEN /\ markets' = [markets EXCEPT ![k] = <<[LastUpdate |-> cbNow,
                                                         RecoveredAt |-> RecoveredAtAfter(ms),
                                                         Healthy |-> TRUE]>>]
                /\ cbPc' = Nil
           ELSE /\ markets' = [markets EXCEPT ![k] = <<[ms EXCEPT !.LastUpdate = cbNow,
                                                                  !.Healthy = TRUE]>>]
                /\ cbPc' = <<k>>
    /\ cbResult' = Nil
    /\ UNCHANGED <<cbNow, halted, conns, recovered>>
    /\ UNCHANGED notBreaker

\* recordUpdate, lines 363-368, for a market that was not healthy:
\* ms.RecoveredAt = now, the now of line 348, and the lock is released.
recordUpdateRecover ==
    /\ cbPc # Nil
    /\ markets' = [markets EXCEPT ![cbPc[1]] =
                      <<[MarketOf(cbPc[1]) EXCEPT !.RecoveredAt = MarketOf(cbPc[1]).LastUpdate]>>]
    /\ recovered' = [recovered EXCEPT ![cbPc[1]] = TRUE]
    /\ cbPc' = Nil
    /\ cbResult' = Nil
    /\ UNCHANGED <<cbNow, halted, conns>>
    /\ UNCHANGED notBreaker

\* CircuitBreaker.MarkStale
MarkStale(k) ==
    /\ cbPc = Nil
    /\ markets' = IF markets[k] = NoMarket THEN markets
                  ELSE [markets EXCEPT ![k] = <<[MarketOf(k) EXCEPT !.Healthy = FALSE]>>]
    /\ cbResult' = Nil
    /\ UNCHANGED <<cbNow, halted, conns, recovered, cbPc>>
    /\ UNCHANGED notBreaker

\* a caller asking CanTrade(exchange, marketID)
CanTradeCall(k) ==
    /\ cbResult' = <<k, CanTrade(k)>>
    /\ UNCHANGED <<cbNow, halted, conns, markets, recovered, cbPc>>
    /\ UNCHANGED notBreaker

BreakerNext ==
    \/ CbTick
    \/ ManualHalt
    \/ Resume
    \/ \E v \in Venues : WatchConnection(v)
    \/ \E v \in Venues : CircuitOpens(v)
    \/ \E v \in Venues : CircuitCloses(v)
    \/ \E k \in CbKeys : recordUpdate(k)
    \/ recordUpdateRecover
    \/ \E k \in CbKeys : MarkStale(k)
    \/ \E k \in CbKeys : CanTradeCall(k)

\* ------------------------------------------------------------ broadcaster
\* A BookUpdate is [src, n, key]: the n-th update adapter src has sent, for
\* key = <<venue, market>>.  A channel is the part of sent[c] not yet read.
Cap(c) == IF c \in UnifiedSubs THEN UnifiedCap ELSE FilteredCap
Buffered(c) == Len(sent[c]) - read[c]
HasRoom(c) == Buffered(c) < Cap(c)

\* select { case ch <- update: default: } never waits for room
SelectReady_Blocking(c) == HasRoom(c)
SelectReady(c) == TRUE

\* ... and sends when there is room, and drops otherwise
SendOrDrop(c, u) == IF HasRoom(c) THEN Append(sent[c], u) ELSE sent[c]

\* case update, ok := <-ch: the oldest update on the source channel
Receive_Newest(q) == <<q[Len(q)], SubSeq(q, 1, Len(q) - 1)>>
Receive(q) == <<Head(q), Tail(q)>>

\* b.subs[key]: the channels subscribed under the update's key
Matches_VenueOnly(c, u) == subs[c] # Nil /\ subs[c][1] # "all" /\ subs[c][1][1] = u.key[1]
Matches(c, u) == subs[c] # Nil /\ subs[c][1] = u.key

NoUpdate == [src |-> "none", n |-> 0, key |-> <<"none", "none">>]

HubStart ==
    /\ sources = {}
    /\ hubRunning = FALSE
    /\ srcQ = [a \in Adapters |-> <<>>]
    /\ emitted = [a \in Adapters |-> 0]
    /\ wpc = [a \in Adapters |-> "recv"]
    /\ cur = [a \in Adapters |-> NoUpdate]
    /\ subs = [c \in Subscribers |-> Nil]
    /\ sent = [c \in Subscribers |-> <<>>]
    /\ read = [c \in Subscribers |-> 0]

\* Broadcaster.Register, before Run
Register(a) ==
    /\ ~hubRunning
    /\ a \notin sources
    /\ sources' = sources \cup {a}
    /\ UNCHANGED <<hubRunning, srcQ, emitted, wpc, cur, subs, sent, read>>
    /\ UNCHANGED notHub

\* Broadcaster.Run: one worker per registered source
HubRun ==
    /\ ~hubRunning
    /\ hubRunning' = TRUE
    /\ UNCHANGED <<sources, srcQ, emitted, wpc, cur, subs, sent, read>>
    /\ UNCHANGED notHub

\* an adapter puts its next BookUpdate on its Updates() channel
Emit(a) ==
    /\ emitted["polymarket"] + emitted["kalshi"] < HubMaxUpdates
    /\ \E k \in Emits(a) :
        srcQ' = [srcQ EXCEPT ![a] = Append(@, [src |-> a, n |-> emitted[a] + 1, key |-> k])]
    /\ emitted' = [emitted EXCEPT ![a] = @ + 1]
    /\ UNCHANGED <<sources, hubRunning, wpc, cur, subs, sent, read>>
    /\ UNCHANGED notHub

\* worker of source a, Run lines 377-381: takes the next update
Take(a) ==
    /\ hubRunning
    /\ a \in sources
    /\ wpc[a] = "recv"
    /\ srcQ[a] # <<>>
    /\ cur' = [cur EXCEPT ![a] = Receive(srcQ[a])[1]]
    /\ srcQ' = [srcQ EXCEPT ![a] = Receive(srcQ[a])[2]]
    /\ wpc' = [wpc EXCEPT ![a] = "filtered"]
    /\ UNCHANGED <<sources, hubRunning, emitted, subs, sent, read>>
    /\ UNCHANGED notHub

\* distribute, lines 397-408, under b.mu.RLock: the filtered subscribers
DistributeFiltered(a) ==
    /\ wpc[a] = "filtered"
    /\ \A c \in FilteredSubs : Matches(c, cur[a]) => SelectReady(c)
    /\ sent' = [c \in Subscribers |->
                   IF c \in FilteredSubs /\ Matches(c, cur[a]) THEN SendOrDrop(c, cur[a]) ELSE sent[c]]
    /\ wpc' = [wpc EXCEPT ![a] = "all"]
    /\ UNCHANGED <<sources, hubRunning, srcQ, emitted, cur, subs, read>>
    /\ UNCHANGED notHub

\* distribute, lines 410-418, under b.allMu.RLock: the unified subscribers
DistributeAll(a) ==
    /\ wpc[a] = "all"
    /\ \A c \in UnifiedSubs : subs[c] # Nil => SelectReady(c)
    /\ sent' = [c \in Subscribers |->
                   IF c \in UnifiedSubs /\ subs[c] # Nil THEN SendOrDrop(c, cur[a]) ELSE sent[c]]
    /\ wpc' = [wpc EXCEPT ![a] = "recv"]
    /\ cur' = [cur EXCEPT ![a] = NoUpdate]
    /\ UNCHANGED <<sources, hubRunning, srcQ, emitted, subs, read>>
    /\ UNCHANGED notHub

\* Broadcaster.Subscribe takes b.mu.Lock: no worker is inside the first
\* loop.  Each call makes a new channel; f1 names the first made, f2 the
\* second.
Subscribe(c) ==
    /\ subs[c] = Nil
    /\ c = "f2" => subs["f1"] # Nil
    /\ \A a \in Adapters : wpc[a] # "filtered"
    /\ \E k \in HubKeys : subs' = [subs EXCEPT ![c] = <<k>>]
    /\ UNCHANGED <<sources, hubRunning, srcQ, emitted, wpc, cur, sent, read>>
    /\ UNCHANGED notHub

\* Broadcaster.SubscribeAll takes b.allMu.Lock: no worker is inside the second loop
SubscribeAll(c) ==
    /\ subs[c] = Nil
    /\ \A a \in Adapters : wpc[a] # "all"
    /\ subs' = [subs EXCEPT ![c] = <<"all">>]
    /\ UNCHANGED <<sources, hubRunning, srcQ, emitted, wpc, cur, sent, read>>
    /\ UNCHANGED notHub

\* a subscriber takes the oldest update off its channel
Consume(c) ==
    /\ Buffered(c) > 0
    /\ read' = [read EXCEPT ![c] = @ + 1]
    /\ UNCHANGED <<sources, hubRunning, srcQ, emitted, wpc, cur, subs, sent>>
    /\ UNCHANGED notHub

HubNext ==
    \/ HubRun
    \/ \E a \in Adapters : Register(a)
    \/ \E a \in Adapters : Emit(a)
    \/ \E a \in Adapters : Take(a)
    \/ \E a \in Adapters : DistributeFiltered(a)
    \/ \E a \in Adapters : DistributeAll(a)
    \/ \E c \in FilteredSubs : Subscribe(c)
    \/ \E c \in UnifiedSubs : SubscribeAll(c)
    \/ \E c \in Subscribers : Consume(c)

\* ----------------------------------------------------------- redis writer
\* strconv.FormatFloat(best, 'f', -1, 64) for a price given in cents
FormatFloat(p) ==
    CASE p = 0 -> "0"
      [] p = 48 -> "0.48"
      [] p = 50 -> "0.5"
      [] p = 54 -> "0.54"
      [] p = 56 -> "0.56"

\* bestPrice's loop over levels[1:], best so far in hand
RECURSIVE BestFrom(_, _, _)
BestFrom(best, levels, isBid) ==
    IF levels = <<>> THEN best
    ELSE BestFrom(IF (isBid /\ Head(levels) > best) \/ (~isBid /\ Head(levels) < best)
                  THEN Head(levels) ELSE best,
                  Tail(levels), isBid)

bestPrice_FirstLevel(levels, isBid) ==
    IF Len(levels) = 0 THEN "0" ELSE FormatFloat(levels[1])
bestPrice(levels, isBid) ==
    IF Len(levels) = 0 THEN "0"
    ELSE FormatFloat(BestFrom(levels[1], Tail(levels), isBid))

\* fmt.Sprintf("book:%s:%s", update.Exchange, update.MarketID)
RedisKey(u) == <<"book", u.key[1], u.key[2]>>

WriterStart ==
    /\ buf = <<>>
    /\ last = [k \in RedisKeys |-> Nil]
    /\ hsets = [k \in RedisKeys |-> 0]
    /\ wrote = Nil
    /\ lastBook = [k \in RedisKeys |-> Nil]
    /\ fed = 0
    /\ cache = [k \in RedisKeys |-> Nil]

\* Run's first goroutine, lines 60-77: an update comes off the feed and goes
\* into rw.buf if there is room; if not it is let go.
Ingest ==
    /\ fed < WriterMaxUpdates
    /\ fed' = fed + 1
    /\ \E u \in WriterUpdates :
        buf' = IF Len(buf) < BufCap THEN Append(buf, u) ELSE buf
    /\ wrote' = Nil
    /\ UNCHANGED <<last, hsets, lastBook, cache>>
    /\ UNCHANGED notWriter

\* Run's second goroutine, lines 80-93, calling write, lines 99-116.  rw.last
\* is set before the HSet is issued, and the error HSet returns is not looked
\* at: the client may store the fields or fail.
Flush ==
    /\ buf # <<>>
    /\ LET update == Head(buf)
           bestBid == bestPrice(update.bids, TRUE)
           bestAsk == bestPrice(update.asks, FALSE)
           key == RedisKey(update)
       IN  /\ buf' = Tail(buf)
           /\ lastBook' = [lastBook EXCEPT ![key] = <<update.bids, update.asks>>]
           /\ IF last[key] # Nil /\ last[key][1] = bestBid /\ last[key][2] = bestAsk
              THEN /\ wrote' = Nil
                   /\ UNCHANGED <<last, hsets, cache>>
              ELSE /\ last' = [last EXCEPT ![key] = <<bestBid, bestAsk>>]
                   /\ hsets' = [hsets EXCEPT ![key] = @ + 1]
                   /\ wrote' = <<key, bestBid, bestAsk>>
                   /\ \E stored \in BOOLEAN :
                        cache' = IF stored THEN [cache EXCEPT ![key] = <<bestBid, bestAsk>>]
                                 ELSE cache
    /\ UNCHANGED fed
    /\ UNCHANGED notWriter

WriterNext ==
    \/ Ingest
    \/ Flush

\* ------------------------------------------------------------ unified book
\* prices are in cents; a side with no levels reads as 0
BookBids == {<<>>, <<62>>, <<48, 70>>}
BookAsks == {<<>>, <<52>>, <<65, 60>>, <<75>>}

\* the zero value of side, as AddPair leaves both sides of a pairState
ZeroSide == [BestBid |-> 0, BestAsk |-> 0]

bestHigh(levels) ==
    IF Len(levels) = 0 THEN 0 ELSE BestFrom(levels[1], Tail(levels), TRUE)
bestLow(levels) ==
    IF Len(levels) = 0 THEN 0 ELSE BestFrom(levels[1], Tail(levels), FALSE)

\* checkArbitrage's test on the ask it reads, lines 166 and 183
HasAsk_Always(s) == TRUE
HasAsk(s) == s.BestAsk > 0

\* checkArbitrage's test on a spread, lines 168 and 185
OverThreshold_OrEqual(spread) == spread >= Threshold
OverThreshold(spread) == spread > Threshold

ArbitrageEvent(direction, bidExchange, askExchange, bid, ask) ==
    [Direction |-> direction, BidExchange |-> bidExchange, AskExchange |-> askExchange,
     Bid |-> bid, Ask |-> ask, Spread |-> bid - ask]

\* emit, lines 200-206: a send that gives up when ub.events is full
emit(ev) ==
    events' = IF Len(events) < EventsCap THEN Append(events, ev) ELSE events

\* sent: the emit calls checkArbitrage has made so far for the update in hand
Waiting == [pc |-> "recv", poly |-> ZeroSide, kalshi |-> ZeroSide, sent |-> 0]

BookStart ==
    /\ states = [x \in Adapters |-> ZeroSide]
    /\ cons = [x \in Adapters |-> Waiting]
    /\ events = <<>>
    /\ bookFed = 0

\* consumeSide takes an update off its subscription and applyUpdate, lines
\* 145-159, stores the side and copies both sides, all of it holding ub.mu
applyUpdate(x) ==
    /\ cons[x].pc = "recv"
    /\ bookFed < BookMaxUpdates
    /\ bookFed' = bookFed + 1
    /\ \E bids \in BookBids, asks \in BookAsks :
        /\ states' = [states EXCEPT ![x] = [BestBid |-> bestHigh(bids), BestAsk |-> bestLow(asks)]]
        /\ cons' = [cons EXCEPT ![x] = [pc |-> "dir1", poly |-> states'["polymarket"],
                                        kalshi |-> states'["kalshi"], sent |-> 0]]
    /\ UNCHANGED events
    /\ UNCHANGED notBook

\* checkArbitrage, lines 165-180, on the copies, ub.mu released
checkPolyBidKalshiAsk(x) ==
    /\ cons[x].pc = "dir1"
    /\ LET poly == cons[x].poly
           kalshi == cons[x].kalshi
       IN  IF HasAsk(kalshi) /\ OverThreshold(poly.BestBid - kalshi.BestAsk)
           THEN /\ emit(ArbitrageEvent("PolyBidKalshiAsk", "polymarket", "kalshi",
                                       poly.BestBid, kalshi.BestAsk))
                /\ cons' = [cons EXCEPT ![x].pc = "dir2", ![x].sent = 1]
           ELSE /\ UNCHANGED events
                /\ cons' = [cons EXCEPT ![x].pc = "dir2"]
    /\ UNCHANGED <<states, bookFed>>
    /\ UNCHANGED notBook

\* checkArbitrage, lines 182-197, and back to consumeSide's select
checkKalshiBidPolyAsk(x) ==
    /\ cons[x].pc = "dir2"
    /\ LET poly == cons[x].poly
           kalshi == cons[x].kalshi
       IN  IF HasAsk(poly) /\ OverThreshold(kalshi.BestBid - poly.BestAsk)
           THEN emit(ArbitrageEvent("KalshiBidPolyAsk", "kalshi", "polymarket",
                                    kalshi.BestBid, poly.BestAsk))
           ELSE UNCHANGED events
    /\ cons' = [cons EXCEPT ![x] = Waiting]
    /\ UNCHANGED <<states, bookFed>>
    /\ UNCHANGED notBook

\* whoever reads Events() takes the oldest event
ReadEvent ==
    /\ events # <<>>
    /\ events' = Tail(events)
    /\ UNCHANGED <<states, cons, bookFed>>
    /\ UNCHANGED notBook

BookNext ==
    \/ \E x \in Adapters : applyUpdate(x)
    \/ \E x \in Adapters : checkPolyBidKalshiAsk(x)
    \/ \E x \in Adapters : checkKalshiBidPolyAsk(x)
    \/ ReadEvent

\* ----------------------------------------------------------- tunnel manager
\* two users on one venue
TunnelKeys == {<<"user-a", "kalshi">>, <<"user-b", "kalshi">>}
\* two goroutines calling into the manager at once
Callers == {1, 2}

Idle == Nil
\* the callers are alike: of the idle ones the lowest makes the next call
MayCall(c) == tmCalls[c] = Idle /\ \A d \in Callers : d < c => tmCalls[d] # Idle
\* the tunnels in tm.tunnels
Registered_Tunnels == {tunnels[k][1] : k \in {q \in TunnelKeys : tunnels[q] # Nil}}
Tuns == 1..Len(tun)
IsOpen(t) == ~tun[t].closed

\* fanOut, lines 648-659: the channels in ws.subs of the WSClient the frame
\* came in on; Open subscribes once to the WSClient it makes
Receivers_EveryTunnel(t) == {j \in Tuns : IsOpen(j)}
Receivers(t) == {t}

\* Tunnel.close, lines 575-578: cancel, then WSClient.Close closes the
\* connection and every subscriber channel
closeTunnel_LeavesStream(ts, t) == ts
closeTunnel(ts, t) == [ts EXCEPT ![t].closed = TRUE]

TunnelStart ==
    /\ tunnels = [k \in TunnelKeys |-> Nil]
    /\ tun = <<>>
    /\ tmCalls = [c \in Callers |-> Idle]
    /\ tmResult = Nil

\* Open, lines 490-498: under tm.mu a tunnel already under the key is
\* closed and removed
OpenBegin(c, k) ==
    /\ MayCall(c)
    /\ Len(tun) < MaxTunnels
    /\ IF tunnels[k] # Nil
       THEN /\ tun' = closeTunnel(tun, tunnels[k][1])
            /\ tunnels' = [tunnels EXCEPT ![k] = Nil]
       ELSE UNCHANGED <<tun, tunnels>>
    /\ tmCalls' = [tmCalls EXCEPT ![c] = [op |-> "connect", key |-> k]]
    /\ tmResult' = Nil
    /\ UNCHANGED notTunnel

\* Open, lines 500-519: NewWSClient, Subscribe, Connect succeeds
OpenConnect(c) ==
    /\ tmCalls[c] # Idle /\ tmCalls[c].op = "connect"
    /\ Len(tun) < MaxTunnels
    /\ tun' = Append(tun, [key |-> tmCalls[c].key, closed |-> FALSE, msgs |-> <<>>, outbox |-> <<>>])
    /\ tmCalls' = [tmCalls EXCEPT ![c] = [op |-> "register", key |-> tmCalls[c].key, t |-> Len(tun) + 1]]
    /\ tmResult' = Nil
    /\ UNCHANGED tunnels
    /\ UNCHANGED notTunnel

\* Open, lines 507-510: Connect fails and Open returns the error
OpenConnectFails(c) ==
    /\ tmCalls[c] # Idle /\ tmCalls[c].op = "connect"
    /\ tmCalls' = [tmCalls EXCEPT ![c] = Idle]
    /\ tmResult' = Nil
    /\ UNCHANGED <<tunnels, tun>>
    /\ UNCHANGED notTunnel

\* Open, lines 520-524: the new tunnel goes into tm.tunnels under tm.mu
OpenRegister(c) ==
    /\ tmCalls[c] # Idle /\ tmCalls[c].op = "register"
    /\ tunnels' = [tunnels EXCEPT ![tmCalls[c].key] = <<tmCalls[c].t>>]
    /\ tmCalls' = [tmCalls EXCEPT ![c] = Idle]
    /\ tmResult' = Nil
    /\ UNCHANGED tun
    /\ UNCHANGED notTunnel

\* Close, lines 529-538: under tm.mu the tunnel leaves the map; with none
\* under the key Close returns at once
CloseBegin(c, k) ==
    /\ MayCall(c)
    /\ IF tunnels[k] # Nil
       THEN /\ tunnels' = [tunnels EXCEPT ![k] = Nil]
            /\ tmCalls' = [tmCalls EXCEPT ![c] = [op |-> "close", key |-> k, took |-> {tunnels[k][1]}, toClose |-> {tunnels[k][1]}]]
            /\ tmResult' = Nil
       ELSE /\ tmResult' = Nil
            /\ UNCHANGED <<tunnels, tmCalls>>
    /\ UNCHANGED tun
    /\ UNCHANGED notTunnel

\* CloseAll, lines 545-549: under tm.mu the map is swapped for an empty one
CloseAllBegin(c) ==
    /\ MayCall(c)
    /\ \E k \in TunnelKeys : tunnels[k] # Nil
    /\ tunnels' = [k \in TunnelKeys |-> Nil]
    /\ tmCalls' = [tmCalls EXCEPT ![c] =
                     [op |-> "close", key |-> <<"all">>, took |-> Registered_Tunnels,
                      toClose |-> Registered_Tunnels]]
    /\ tmResult' = Nil
    /\ UNCHANGED tun
    /\ UNCHANGED notTunnel

\* Close, lines 540-542, and CloseAll's loop, lines 551-553: t.close() on
\* a tunnel taken out of the map, tm.mu released; the call returns after
\* the last of them
closeOne(c) ==
    /\ tmCalls[c] # Idle /\ tmCalls[c].op = "close"
    /\ \E t \in tmCalls[c].toClose :
        /\ tun' = closeTunnel(tun, t)
        /\ tmCalls' = IF tmCalls[c].toClose = {t}
                      THEN [tmCalls EXCEPT ![c] = Idle]
                      ELSE [tmCalls EXCEPT ![c].toClose = @ \ {t}]
    /\ tmResult' = Nil
    /\ UNCHANGED tunnels
    /\ UNCHANGED notTunnel

\* Send, lines 566-570: Get finds no tunnel and Send returns the error, or
\* finds one
SendGet(c, k) ==
    /\ MayCall(c)
    /\ IF tunnels[k] = Nil
       THEN /\ tmResult' = <<"no active session", k>>
            /\ UNCHANGED tmCalls
       ELSE /\ tmResult' = Nil
            /\ tmCalls' = [tmCalls EXCEPT ![c] = [op |-> "send", key |-> k, t |-> tunnels[k][1]]]
    /\ UNCHANGED <<tunnels, tun>>
    /\ UNCHANGED notTunnel

\* Send, lines 571-572, into WSClient.Send: the frame goes into the outbox
\* if there is room
SendEnqueue(c) ==
    /\ tmCalls[c] # Idle /\ tmCalls[c].op = "send"
    /\ LET t == tmCalls[c].t
       IN  tun' = IF Len(tun[t].outbox) < OutboxCap
                  THEN [tun EXCEPT ![t].outbox = Append(@, tmCalls[c].key)]
                  ELSE tun
    /\ tmCalls' = [tmCalls EXCEPT ![c] = Idle]
    /\ tmResult' = Nil
    /\ UNCHANGED tunnels
    /\ UNCHANGED notTunnel

\* the venue pushes a frame down tunnel t's connection: readLoop hands it to
\* fanOut, which puts it on each receiving channel that has room.  The frame
\* is written as the tunnel it came in on.
Inbound(t) ==
    /\ t \in Tuns /\ IsOpen(t)
    /\ tun' = [j \in Tuns |->
                 IF j \in Receivers(t) /\ Len(tun[j].msgs) < StreamCap
                 THEN [tun[j] EXCEPT !.msgs = Append(@, t)]
                 ELSE tun[j]]
    /\ tmResult' = Nil
    /\ UNCHANGED <<tunnels, tmCalls>>
    /\ UNCHANGED notTunnel

\* the tunnel's owner takes a frame off Messages()
ReadMessages(t) ==
    /\ t \in Tuns /\ tun[t].msgs # <<>>
    /\ tun' = [tun EXCEPT ![t].msgs = Tail(@)]
    /\ tmResult' = Nil
    /\ UNCHANGED <<tunnels, tmCalls>>
    /\ UNCHANGED notTunnel

\* writeLoop, lines 631-645, takes a frame off the outbox and writes it
writeLoop(t) ==
    /\ t \in Tuns /\ IsOpen(t) /\ tun[t].outbox # <<>>
    /\ tun' = [tun EXCEPT ![t].outbox = Tail(@)]
    /\ tmResult' = Nil
    /\ UNCHANGED <<tunnels, tmCalls>>
    /\ UNCHANGED notTunnel

TunnelNext ==
    \/ \E c \in Callers, k \in TunnelKeys : OpenBegin(c, k)
    \/ \E c \in Callers : OpenConnect(c)
    \/ \E c \in Callers : OpenConnectFails(c)
    \/ \E c \in Callers : OpenRegister(c)
    \/ \E c \in Callers, k \in TunnelKeys : CloseBegin(c, k)
    \/ \E c \in Callers : CloseAllBegin(c)
    \/ \E c \in Callers : closeOne(c)
    \/ \E c \in Callers, k \in TunnelKeys : SendGet(c, k)
    \/ \E c \in Callers : SendEnqueue(c)
    \/ \E t \in 1..MaxTunnels : Inbound(t)
    \/ \E t \in 1..MaxTunnels : ReadMessages(t)
    \/ \E t \in 1..MaxTunnels : writeLoop(t)

\* ---------------------------------------------------------------- ws client
CircuitClosed == "closed"
CircuitOpen == "open"

\* a socket whose ReadMessage returns an error: the peer is gone, nothing
\* came within HeartbeatTimeout, or the socket was closed under the reader
ReadErrs(c) == c \in {"silent", "broken", "closed"}
\* a socket whose WriteMessage returns an error
WriteErrs(c) == c \in {"broken", "closed"}

\* what reconnect stores in ws.circuit on entry, line 576
reconnectCircuit_Untouched == CircuitClosed
reconnectCircuit == CircuitOpen

\* the delay after a failed dial, lines 588-591
nextDelay_Uncapped(d) == d * BackoffFactor
nextDelay(d) ==
    IF d * BackoffFactor < BackoffMax THEN d * BackoffFactor ELSE BackoffMax

WsStart ==
    /\ circuit = CircuitClosed
    /\ conn = "nil"
    /\ rl = "off"
    /\ delay = 0
    /\ failed = 0
    /\ ctxDone = FALSE
    /\ wsOutbox = 0
    /\ wsErr = Nil

\* Connect, lines 504-516: the first dial succeeds, the circuit is stored
\* closed and the loops start
Connect ==
    /\ rl = "off" /\ ~ctxDone
    /\ conn' = "up"
    /\ circuit' = CircuitClosed
    /\ rl' = "read"
    /\ wsErr' = Nil
    /\ UNCHANGED <<delay, failed, ctxDone, wsOutbox>>
    /\ UNCHANGED notWs

\* the venue goes quiet, or goes away
ServerSilent ==
    /\ conn = "up"
    /\ conn' = "silent"
    /\ wsErr' = Nil
    /\ UNCHANGED <<circuit, rl, delay, failed, ctxDone, wsOutbox>>
    /\ UNCHANGED notWs

ServerGone ==
    /\ conn \in {"up", "silent"}
    /\ conn' = "broken"
    /\ wsErr' = Nil
    /\ UNCHANGED <<circuit, rl, delay, failed, ctxDone, wsOutbox>>
    /\ UNCHANGED notWs

\* the owner cancels the context
Cancel ==
    /\ ~ctxDone
    /\ ctxDone' = TRUE
    /\ wsErr' = Nil
    /\ UNCHANGED <<circuit, conn, rl, delay, failed, wsOutbox>>
    /\ UNCHANGED notWs

\* readLoop, lines 607-613 and 626: a message is read and fanned out
ReadOk ==
    /\ rl = "read" /\ conn = "up"
    /\ wsErr' = Nil
    /\ UNCHANGED <<circuit, conn, rl, delay, failed, ctxDone, wsOutbox>>
    /\ UNCHANGED notWs

\* readLoop, lines 614-622: ReadMessage fails.  With the context cancelled
\* the loop returns; otherwise it closes the socket and enters reconnect,
\* lines 576-578, which opens the circuit and starts from BackoffInitial
ReadFails ==
    /\ rl = "read" /\ ReadErrs(conn)
    /\ IF ctxDone
       THEN /\ rl' = "done"
            /\ wsErr' = Nil
            /\ UNCHANGED <<circuit, conn, delay, failed>>
       ELSE /\ wsErr' = <<"read">>
            /\ conn' = "closed"
            /\ circuit' = reconnectCircuit
            /\ delay' = BackoffInitial
            /\ failed' = 0
            /\ rl' = "wait"
    /\ UNCHANGED <<ctxDone, wsOutbox>>
    /\ UNCHANGED notWs

\* reconnect's select, lines 580-584: time.After(delay) fires first and the
\* loop goes on to dial
WaitElapsed ==
    /\ rl = "wait" /\ ~ctxDone
    /\ rl' = "dial"
    /\ wsErr' = Nil
    /\ UNCHANGED <<circuit, conn, delay, failed, ctxDone, wsOutbox>>
    /\ UNCHANGED notWs

\* reconnect's select, lines 581-582: ctx.Done() is taken
WaitCancelled ==
    /\ rl = "wait" /\ ctxDone
    /\ rl' = "done"
    /\ wsErr' = Nil
    /\ UNCHANGED <<circuit, conn, delay, failed, ctxDone, wsOutbox>>
    /\ UNCHANGED notWs

\* reconnect, lines 586-593: dial fails and the delay grows.  With the
\* context cancelled since the timer fired the dial fails on it, and the
\* select that follows finds ctx.Done() ready and the new timer not: the
\* loop returns.
DialFails ==
    /\ rl = "dial"
    /\ ctxDone \/ failed < MaxFailedDials
    /\ failed' = failed + 1
    /\ delay' = nextDelay(delay)
    /\ rl' = IF ctxDone THEN "done" ELSE "wait"
    /\ wsErr' = Nil
    /\ UNCHANGED <<circuit, conn, ctxDone, wsOutbox>>
    /\ UNCHANGED notWs

\* reconnect, lines 586 and 595-599, back into readLoop: dial succeeds
DialOk ==
    /\ rl = "dial" /\ ~ctxDone
    /\ conn' = "up"
    /\ circuit' = CircuitClosed
    /\ rl' = "read"
    /\ wsErr' = Nil
    /\ UNCHANGED <<delay, failed, ctxDone, wsOutbox>>
    /\ UNCHANGED notWs

\* Send, lines 494-500
WsSend ==
    /\ wsOutbox' = IF wsOutbox < OutboxCap THEN wsOutbox + 1 ELSE wsOutbox
    /\ wsErr' = Nil
    /\ UNCHANGED <<circuit, conn, rl, delay, failed, ctxDone>>
    /\ UNCHANGED notWs

\* writeLoop, lines 636-642: a frame is taken off the outbox and written to
\* the socket ws.conn points to; a failed write is logged
WriteOut ==
    /\ rl \notin {"off"} /\ wsOutbox > 0
    /\ wsOutbox' = wsOutbox - 1
    /\ wsErr' = IF WriteErrs(conn) THEN <<"write">> ELSE Nil
    /\ UNCHANGED <<circuit, conn, rl, delay, failed, ctxDone>>
    /\ UNCHANGED notWs

WsNext ==
    \/ Connect
    \/ ServerSilent
    \/ ServerGone
    \/ Cancel
    \/ ReadOk
    \/ ReadFails
    \/ WaitElapsed
    \/ WaitCancelled
    \/ DialFails
    \/ DialOk
    \/ WsSend
    \/ WriteOut

\* ------------------------------------------------------------------ decoders
Decoders == {"polymarket", "kalshi"}

\* the constructor subscribes to the WSClient's fan-out: kalshi.New does
\* (raw: ws.Subscribe()), poly.New does not
SubscribesInNew(d) == d = "kalshi"

DecoderStart ==
    dec = [d \in Decoders |->
             [made |-> FALSE, running |-> FALSE, connected |-> FALSE,
              subscribed |-> FALSE, read |-> 0, raw |-> <<>>, missed |-> FALSE]]

\* poly.New, lines 55-66; kalshi.New, lines 131-144
New(d) ==
    /\ ~dec[d].made
    /\ dec' = [dec EXCEPT ![d].made = TRUE, ![d].subscribed = SubscribesInNew(d)]
    /\ UNCHANGED notDecoder

\* ws.Connect on the decoder's WSClient: readLoop starts reading
WsConnect(d) ==
    /\ ~dec[d].connected
    /\ dec' = [dec EXCEPT ![d].connected = TRUE]
    /\ UNCHANGED notDecoder

\* PolyAdapter.Run, lines 86-87, subscribes as it starts; KalshiAdapter.Run,
\* lines 167-168, reads the channel its constructor made
RunStarts(d) ==
    /\ dec[d].made /\ ~dec[d].running
    /\ dec' = [dec EXCEPT ![d].running = TRUE, ![d].subscribed = TRUE]
    /\ UNCHANGED notDecoder

\* readLoop reads a frame and fanOut, lines 648-659, puts it on every channel
\* in ws.subs that has room
Frame(d) ==
    /\ dec[d].connected
    /\ dec[d].read < MaxWireFrames
    /\ dec' = [dec EXCEPT
                 ![d].read = @ + 1,
                 ![d].raw = IF dec[d].subscribed /\ Len(@) < StreamCap
                            THEN Append(@, dec[d].read + 1) ELSE @,
                 ![d].missed = @ \/ (dec[d].made /\ ~dec[d].subscribed)]
    /\ UNCHANGED notDecoder

\* Run's loop takes a frame off the channel and handles it
handleMessage(d) ==
    /\ dec[d].running /\ dec[d].raw # <<>>
    /\ dec' = [dec EXCEPT ![d].raw = Tail(@)]
    /\ UNCHANGED notDecoder

DecoderNext ==
    \/ \E d \in Decoders : New(d)
    \/ \E d \in Decoders : WsConnect(d)
    \/ \E d \in Decoders : RunStarts(d)
    \/ \E d \in Decoders : Frame(d)
    \/ \E d \in Decoders : handleMessage(d)

\* ------------------------------------------------------------- kalshi books
Tickers == {"FED-DEC", "BTC-100K"}
KaPrices == {48, 54}
\* orderbook_snapshot messages: the yes and no level lists of the wire format
YesLists == {<<>>, <<<<48, 300>>>>}
NoLists == {<<>>, <<<<54, 200>>>>, <<<<54, 100>>, <<48, 100>>>>}
KaDeltas == {-200, -100, 100}
Snapshots == [type : {"orderbook_snapshot"}, ticker : Tickers, yes : YesLists, no : NoLists]
DeltaMsgs == [type : {"orderbook_delta"}, ticker : Tickers, price : KaPrices,
              delta : KaDeltas, side : {"yes", "no"}]

\* a map[int]int is the set of its <<price, quantity>> entries
Has(m, p) == \E e \in m : e[1] = p
\* m[p], the zero value when p is not a key
At(m, p) == IF Has(m, p) THEN (CHOOSE e \in m : e[1] = p)[2] ELSE 0
Put(m, p, q) == {e \in m : e[1] # p} \cup {<<p, q>>}
Delete(m, p) == {e \in m : e[1] # p}

\* handleSnapshot's loops, lines 213-218: book.Yes[level[0]] = level[1]
RECURSIVE FromLevels(_, _)
FromLevels(m, levels) ==
    IF levels = <<>> THEN m
    ELSE FromLevels(Put(m, Head(levels)[1], Head(levels)[2]), Tail(levels))

\* handleDelta's test on the new quantity, line 247
Removes_BelowZero(newQty) == newQty < 0
Removes(newQty) == newQty <= 0

\* float64(price) / 100.0
CentsToPrice(price) == <<price, 100>>
centsToLevels(m) == {[Price |-> CentsToPrice(e[1]), Size |-> e[2]] : e \in m}

\* emitUpdate, lines 260-280: the book as a BookUpdate, sent unless
\* ka.updates is full
BookUpdateOf(t, book) ==
    [Exchange |-> "kalshi", AssetID |-> t,
     Bids |-> centsToLevels(book.Yes), Asks |-> centsToLevels(book.No)]
emitUpdate(t, book) ==
    updates' = IF Len(updates) < KaUpdatesCap
               THEN Append(updates, BookUpdateOf(t, book)) ELSE updates

KalshiStart ==
    /\ books = [t \in Tickers |-> Nil]
    /\ updates = <<>>
    /\ kaMsg = Nil
    /\ kaFed = 0

\* handleSnapshot, lines 200-225
handleSnapshot(snap) ==
    /\ kaFed < KaMaxMsgs
    /\ kaFed' = kaFed + 1
    /\ kaMsg' = <<snap>>
    /\ LET book == [Yes |-> FromLevels({}, snap.yes), No |-> FromLevels({}, snap.no)]
       IN  /\ books' = [books EXCEPT ![snap.ticker] = <<book>>]
           /\ emitUpdate(snap.ticker, book)
    /\ UNCHANGED notKalshi

\* handleDelta, lines 227-255
handleDelta(d) ==
    /\ kaFed < KaMaxMsgs
    /\ kaFed' = kaFed + 1
    /\ kaMsg' = <<d>>
    /\ IF books[d.ticker] = Nil
       THEN UNCHANGED <<books, updates>>
       ELSE LET book == books[d.ticker][1]
                side == IF d.side = "no" THEN book.No ELSE book.Yes
                newQty == At(side, d.price) + d.delta
                after == IF Removes(newQty) THEN Delete(side, d.price)
                         ELSE Put(side, d.price, newQty)
                book2 == IF d.side = "no" THEN [book EXCEPT !.No = after]
                         ELSE [book EXCEPT !.Yes = after]
            IN  /\ books' = [books EXCEPT ![d.ticker] = <<book2>>]
                /\ emitUpdate(d.ticker, book2)
    /\ UNCHANGED notKalshi

\* whoever reads Updates() takes the oldest update
TakeUpdate ==
    /\ updates # <<>>
    /\ updates' = Tail(updates)
    /\ kaMsg' = Nil
    /\ UNCHANGED <<books, kaFed>>
    /\ UNCHANGED notKalshi

KalshiNext ==
    \/ \E snap \in Snapshots : handleSnapshot(snap)
    \/ \E d \in DeltaMsgs : handleDelta(d)
    \/ TakeUpdate

\* ---------------------------------------------------------- order validator
\* Validator (engine/validator): prices and quantities are float64 in the
\* code; here they are counted in hundredths, so 0.55 is 55 and the lot 1.0
\* is 100.  Enumerations keep their names; "none" is the zero value that is
\* neither of the declared constants.
Sides == {"none", "buy", "sell"}
OrderTypes == {"none", "limit", "market", "stop_loss"}
Exchanges == {"polymarket", "kalshi", "unknown"}
OrderPrices == {-5, 0, 55, 100}
OrderQuantities == {50, 100, 1000}
Orders == [Side : Sides, Type : OrderTypes, Exchange : Exchanges, Price : OrderPrices, Quantity : OrderQuantities, Status : {"new"}]

DefaultConstraints ==
    [e \in {"polymarket", "kalshi"} |-> [MinPrice |-> 0, MaxPrice |-> 100, MinLotSize |-> 100]]

PriceOutOfRange_Inclusive(price, ec) == price < ec.MinPrice \/ price > ec.MaxPrice

PriceOutOfRange(price, ec) == price <= ec.MinPrice \/ price >= ec.MaxPrice

\* validate: the first failing check returns; asked records whether the call
\* got as far as gate.CanTrade, whose answer is canTrade.
validate(o, canTrade) ==
    IF o.Side # "buy" /\ o.Side # "sell" THEN [err |-> "ErrInvalidSide", asked |-> FALSE]
    ELSE IF o.Type # "limit" /\ o.Type # "market" /\ o.Type # "stop_loss" THEN [err |-> "ErrInvalidType", asked |-> FALSE]
    ELSE IF o.Exchange \notin DOMAIN DefaultConstraints THEN [err |-> "unknown exchange", asked |-> FALSE]
    ELSE LET ec == DefaultConstraints[o.Exchange] IN
         IF (o.Type = "limit" \/ o.Type = "stop_loss") /\ PriceOutOfRange(o.Price, ec) THEN [err |-> "ErrPriceOutOfRange", asked |-> FALSE]
         ELSE IF o.Quantity < ec.MinLotSize THEN [err |-> "ErrQuantityTooLow", asked |-> FALSE]
         ELSE IF ~canTrade THEN [err |-> "ErrCircuitOpen", asked |-> TRUE]
         ELSE [err |-> "nil", asked |-> TRUE]

ValidatorStart ==
    /\ order = Nil
    /\ vres = [n |-> 0, err |-> "nil", asked |-> FALSE, answer |-> FALSE]

\* A caller builds an order (status new) and hands it to the pipeline.
NewOrder(o) ==
    /\ order' = <<o>>
    /\ vres' = [n |-> 0, err |-> "nil", asked |-> FALSE, answer |-> FALSE]
    /\ UNCHANGED notValidator

\* Validator.Validate(order) with the gate answering canTrade if asked.
Validate(canTrade) ==
    /\ order # Nil
    /\ vres.n < VMaxCalls
    /\ LET r == validate(order[1], canTrade) IN
        /\ order' = [order EXCEPT ![1].Status = IF r.err # "nil" THEN "rejected" ELSE "validated"]
        /\ vres' = [n |-> vres.n + 1, err |-> r.err, asked |-> r.asked, answer |-> r.asked /\ canTrade]
    /\ UNCHANGED notValidator

ValidatorNext ==
    \/ \E o \in Orders : NewOrder(o)
    \/ \E canTrade \in BOOLEAN : Validate(canTrade)

\* ------------------------------------------------------- ws client shutdown
\* WSClient.Close against the readLoop goroutine, statement by statement.
\* The client is connected and has two subscribers.  Close and fanOut both
\* take subMu for reading, so neither keeps the other out.  A send on a
\* closed channel, and a close of a closed channel, panic.
WsSubs == {1, 2}
CtxCancelled == cpc # <<"idle", 0>>
Running == rpc[1] # "panic" /\ cpc[1] # "panic"

ShutdownStart ==
    /\ cpc = <<"idle", 0>>
    /\ rpc = <<"read", 0>>
    /\ wsConn = "up"
    /\ subCh = [i \in WsSubs |-> [closed |-> FALSE, len |-> 0]]
    /\ doneCh = 0

\* Close, lines 521-523: ws.cancel()
Close_cancel ==
    /\ Running /\ cpc = <<"idle", 0>>
    /\ cpc' = <<"conn", 0>>
    /\ UNCHANGED <<rpc, wsConn, subCh, doneCh>>
    /\ UNCHANGED notShutdown

\* Close, lines 524-528: the socket ws.conn points to now is closed
Close_conn ==
    /\ Running /\ cpc = <<"conn", 0>>
    /\ wsConn' = "closed"
    /\ cpc' = <<"subs", 1>>
    /\ UNCHANGED <<rpc, subCh, doneCh>>
    /\ UNCHANGED notShutdown

\* Close, lines 530-534: close(ch) for the next subscriber
Close_subs ==
    /\ Running /\ cpc[1] = "subs"
    /\ LET i == cpc[2] IN
        IF subCh[i].closed
        THEN cpc' = <<"panic", i>> /\ UNCHANGED subCh
        ELSE /\ subCh' = [subCh EXCEPT ![i].closed = TRUE]
             /\ cpc' = IF i + 1 \in WsSubs THEN <<"subs", i + 1>> ELSE <<"done", 0>>
    /\ UNCHANGED <<rpc, wsConn, doneCh>>
    /\ UNCHANGED notShutdown

\* Close, line 536: close(ws.done), and Close returns
Close_done ==
    /\ Running /\ cpc = <<"done", 0>>
    /\ doneCh' = doneCh + 1
    /\ cpc' = <<"returned", 0>>
    /\ UNCHANGED <<rpc, wsConn, subCh>>
    /\ UNCHANGED notShutdown

\* readLoop, lines 608-613 and 626: ReadMessage returns a frame
readLoop_frame ==
    /\ Running /\ rpc = <<"read", 0>> /\ wsConn = "up"
    /\ rpc' = <<"fanOut", 1>>
    /\ UNCHANGED <<cpc, wsConn, subCh, doneCh>>
    /\ UNCHANGED notShutdown

\* readLoop, lines 613-623: ReadMessage returns an error, the socket having
\* been closed or nothing having come within HeartbeatTimeout.  With the
\* context cancelled the loop returns; otherwise c.Close() and reconnect.
readLoop_error ==
    /\ Running /\ rpc = <<"read", 0>>
    /\ IF CtxCancelled
       THEN rpc' = <<"returned", 0>> /\ UNCHANGED wsConn
       ELSE rpc' = <<"wait", 0>> /\ wsConn' = "closed"
    /\ UNCHANGED <<cpc, subCh, doneCh>>
    /\ UNCHANGED notShutdown

\* fanOut, lines 652-658: the send to the next subscriber, given up when the
\* channel is full
fanOut ==
    /\ Running /\ rpc[1] = "fanOut"
    /\ LET i == rpc[2] IN
        IF subCh[i].closed
        THEN rpc' = <<"panic", i>> /\ UNCHANGED subCh
        ELSE /\ subCh' = [subCh EXCEPT ![i].len = IF @ < StreamCap THEN @ + 1 ELSE @]
             /\ rpc' = IF i + 1 \in WsSubs THEN <<"fanOut", i + 1>> ELSE <<"read", 0>>
    /\ UNCHANGED <<cpc, wsConn, doneCh>>
    /\ UNCHANGED notShutdown

\* reconnect's select, lines 580-584
reconnect_select ==
    /\ Running /\ rpc = <<"wait", 0>>
    /\ rpc' = IF CtxCancelled THEN <<"returned", 0>> ELSE <<"dial", 0>>
    /\ UNCHANGED <<cpc, wsConn, subCh, doneCh>>
    /\ UNCHANGED notShutdown

\* dial, line 562: DialContext returns a socket; with the context cancelled
\* it returns an error
dial_DialContext ==
    /\ Running /\ rpc = <<"dial", 0>>
    /\ \/ ~CtxCancelled /\ rpc' = <<"store", 0>>
       \/ rpc' = <<"wait", 0>>
    /\ UNCHANGED <<cpc, wsConn, subCh, doneCh>>
    /\ UNCHANGED notShutdown

\* dial, lines 567-569, and reconnect returning true to readLoop: ws.conn is
\* the new socket
dial_store ==
    /\ Running /\ rpc = <<"store", 0>>
    /\ wsConn' = "up"
    /\ rpc' = <<"read", 0>>
    /\ UNCHANGED <<cpc, subCh, doneCh>>
    /\ UNCHANGED notShutdown

\* a subscriber takes a frame off its channel
Drain(i) ==
    /\ Running /\ subCh[i].len > 0
    /\ subCh' = [subCh EXCEPT ![i].len = @ - 1]
    /\ UNCHANGED <<cpc, rpc, wsConn, doneCh>>
    /\ UNCHANGED notShutdown

ShutdownNext ==
    \/ Close_cancel
    \/ Close_conn
    \/ Close_subs
    \/ Close_done
    \/ readLoop_frame
    \/ readLoop_error
    \/ fanOut
    \/ reconnect_select
    \/ dial_DialContext
    \/ dial_store
    \/ \E i \in WsSubs : Drain(i)

\* ------------------------------------------------ subscriptions and redial
\* A decoder's market subscriptions on its WSClient.  Subscribe(ticker) hands
\* one command to ws.Send; writeLoop writes it to the socket ws.conn points
\* to at that moment.  The venue streams a market only on a connection on
\* which it received the subscription, and a new connection starts with
\* none.
\* markets the decoder is asked to follow
SubMarkets == {"FED-DEC", "BTC-100K", "ETH-5K"}

ResubStart ==
    /\ asked = {}
    /\ subOutbox = <<>>
    /\ link = "up"
    /\ venueSubs = {}
    /\ sentOn = {}
    /\ streamed = {}

\* PolyAdapter.Subscribe / KalshiAdapter.Subscribe: one ws.Send, which gives
\* up when the outbox is full
Subscribe_Send(m) ==
    /\ m \notin asked
    /\ asked' = asked \cup {m}
    /\ subOutbox' = IF Len(subOutbox) < OutboxCap THEN Append(subOutbox, m) ELSE subOutbox
    /\ UNCHANGED <<link, venueSubs, sentOn, streamed>>
    /\ UNCHANGED notResub

\* writeLoop, lines 636-642: a command is written to the socket in place; on
\* a closed socket the write fails, is logged, and the command is gone
writeLoop_WriteMessage ==
    /\ subOutbox # <<>>
    /\ subOutbox' = Tail(subOutbox)
    /\ IF link = "up"
       THEN /\ venueSubs' = venueSubs \cup {Head(subOutbox)}
            /\ sentOn' = sentOn \cup {Head(subOutbox)}
       ELSE UNCHANGED <<venueSubs, sentOn>>
    /\ UNCHANGED <<asked, link, streamed>>
    /\ UNCHANGED notResub

\* the venue sends a frame for a market subscribed on this connection, and
\* readLoop fans it out
VenueFrame(m) ==
    /\ link = "up" /\ m \in venueSubs
    /\ streamed' = streamed \cup {m}
    /\ UNCHANGED <<asked, subOutbox, link, venueSubs, sentOn>>
    /\ UNCHANGED notResub

\* readLoop, lines 613-623: with no market subscribed the venue sends
\* nothing, ReadMessage runs into HeartbeatTimeout, and the socket is closed
readLoop_HeartbeatTimeout ==
    /\ link = "up" /\ venueSubs = {}
    /\ link' = "closed"
    /\ streamed' = {}
    /\ UNCHANGED <<asked, subOutbox, venueSubs, sentOn>>
    /\ UNCHANGED notResub

\* the connection is lost: readLoop's read fails and the socket is closed
ConnectionLost ==
    /\ link = "up" /\ venueSubs # {}
    /\ link' = "closed"
    /\ venueSubs' = {}
    /\ streamed' = {}
    /\ UNCHANGED <<asked, subOutbox, sentOn>>
    /\ UNCHANGED notResub

\* reconnect, lines 586-599: the dial succeeds, ws.conn is the new socket,
\* the circuit closes, and onReconnect - a hook only tests set - is called
reconnect_redial ==
    /\ link = "closed"
    /\ link' = "up"
    /\ UNCHANGED <<asked, subOutbox, venueSubs, sentOn, streamed>>
    /\ UNCHANGED notResub

ResubNext ==
    \/ \E m \in SubMarkets : Subscribe_Send(m)
    \/ writeLoop_WriteMessage
    \/ \E m \in SubMarkets : VenueFrame(m)
    \/ readLoop_HeartbeatTimeout
    \/ ConnectionLost
    \/ reconnect_redial

\* ------------------------------------------------------------- composition
\* Every component starts in its constructed state; each specification runs
\* one component and leaves the others where they started.
Init ==
    /\ SignerStart
    /\ BreakerStart
    /\ HubStart
    /\ WriterStart
    /\ BookStart
    /\ TunnelStart
    /\ WsStart
    /\ DecoderStart
    /\ KalshiStart
    /\ ValidatorStart
    /\ ShutdownStart
    /\ ResubStart

Spec == Init /\ [][Next]_vars
BreakerSpec == Init /\ [][BreakerNext]_vars
HubSpec == Init /\ [][HubNext]_vars
WriterSpec == Init /\ [][WriterNext]_vars
BookSpec == Init /\ [][BookNext]_vars
TunnelSpec == Init /\ [][TunnelNext]_vars
WsSpec == Init /\ [][WsNext]_vars
DecoderSpec == Init /\ [][DecoderNext]_vars
KalshiSpec == Init /\ [][KalshiNext]_vars
ValidatorSpec == Init /\ [][ValidatorNext]_vars
ShutdownSpec == Init /\ [][ShutdownNext]_vars
ResubSpec == Init /\ [][ResubNext]_vars

\* The decoder's subscriptions with the goroutines scheduled, a venue that
\* streams every market subscribed on the connection, and redials that
\* succeed; the connection may be lost at any time or never.
ResubLiveSpec ==
    /\ Init /\ [][ResubNext]_vars
    /\ WF_vars(writeLoop_WriteMessage)
    /\ WF_vars(readLoop_HeartbeatTimeout)
    /\ WF_vars(reconnect_redial)
    /\ \A m \in SubMarkets : WF_vars(VenueFrame(m))

\* The transport with its goroutines scheduled: a read that fails, a select
\* with a ready case and a dial that has been started each complete.  What
\* the venue does (frames, silence, going away) and what the owner does
\* (Send, cancel) is not forced.
WsLiveSpec ==
    /\ Init /\ [][WsNext]_vars
    /\ WF_vars(ReadFails)
    /\ WF_vars(WaitElapsed)
    /\ WF_vars(WaitCancelled)
    /\ WF_vars(DialFails \/ DialOk)
    /\ WF_vars(WriteOut)

\* ------------------------------------------------------------------- claims
\* A step in which Sign was called: the request passed the handler's parsing
\* and either got its error back or went on to sign.
SignCalled == calls' # calls /\ resp'.code # "InvalidArgument"
\* ... and returned an error / produced the signature for goroutine p.
SignRejected == SignCalled /\ resp'.op = "SignOrder"
SignApproved(p) == pc[p] = "idle" /\ pc'[p] = "Sign_commit"

\* C1: within one session the notionals of the approved sign_order calls sum
\* to at most max_notional, and notional_used <= max_notional in every
\* reachable state in which a session exists.
C1_NotionalWithinLimit ==
    enclave # Nil =>
        /\ approvedSum <= maxValueLimit[1]
        /\ valueUsed <= maxValueLimit[1]

\* The budget has been used up to the last unit by approved orders and a
\* further order has just been refused.
C1_Witness ==
    /\ enclave # Nil
    /\ approvedSum = maxValueLimit[1]
    /\ valueUsed = 200000000
    /\ resp.err = ErrValueLimitExceeded

\* C2: a rejected sign_order never advances notional_used (an error return
\* leaves it as it was, or wipes it with the session on expiry);
\* notional_used grows only by the commit of a call whose signature was
\* produced, and then by that order's notional; limit_exceeded leaves the
\* session active with every attribute unchanged.
C2_RejectedNeverAdvances ==
    [][ /\ SignRejected =>
            \/ valueUsed' = valueUsed
            \/ resp'.err = ErrSessionExpired /\ enclave' = Nil /\ valueUsed' = 0
        /\ valueUsed' > valueUsed =>
            \/ \E p \in Procs :
                /\ pc[p] = "Sign_commit" /\ pc'[p] = "Status_call"
                /\ local[p].sig # Nil
                /\ valueUsed' = valueUsed + local[p].orderValue
            \/ valueUsed' = 0
        /\ (SignRejected /\ resp'.err = ErrValueLimitExceeded) =>
            /\ enclave # Nil
            /\ UNCHANGED sessionVars
      ]_vars

\* A call has just failed while opening the key, on a session with usage.
C2_Witness ==
    /\ resp.err = ErrOpenEnclave
    /\ enclave # Nil
    /\ valueUsed > 0

\* C3: on an active session whose TTL check passes, Sign passes the limit
\* check exactly when notional_used + order.notional <= max_notional: a call
\* is approved only within the limit, it is refused with limit_exceeded
\* exactly when over it, and the only other refusal is the key failing to
\* open.  Reaching max_notional exactly is approved.
C3_ApprovedIffWithinLimit ==
    [][ (enclave # Nil /\ ~isExpired) =>
            /\ \A p \in Procs : SignApproved(p) =>
                   valueUsed + local'[p].orderValue <= maxValueLimit[1]
            /\ SignRejected =>
                /\ resp'.err \in {ErrValueLimitExceeded, ErrOpenEnclave}
                /\ resp'.err = ErrValueLimitExceeded <=>
                       valueUsed + resp'.orderValue > maxValueLimit[1]
      ]_vars

\* Limit 200,000,000: 100,000,000 twice has been approved, and 1,000,000 has
\* just been refused with the usage still at 200,000,000.
C3_Witness ==
    /\ enclave # Nil
    /\ maxValueLimit = <<200000000>>
    /\ valueUsed = 200000000
    /\ approvedSum = 200000000
    /\ calls = 3
    /\ resp.err = ErrValueLimitExceeded
    /\ resp.orderValue = 1000000

\* C4: sign_order proceeds only if now < expires_at: a Sign call on an
\* existing session at any time now >= expires_at, now == expires_at
\* included, fails with session_expired and destroys the session.
C4_ExpiredAtOrAfterExpiresAt ==
    [][ (SignCalled /\ enclave # Nil /\ now >= expiresAt) =>
            /\ resp'.err = ErrSessionExpired
            /\ enclave' = Nil
      ]_vars

\* C5: get_session_status returns active=false with zero values whenever no
\* session exists or now >= expires_at (now == expires_at included), and
\* otherwise active=true with the session's limit, usage and address.
C5_StatusInactiveFromExpiresAt ==
    resp.op = "GetSessionStatus" =>
        IF enclave = Nil \/ now >= expiresAt
        THEN /\ resp.active = FALSE /\ resp.ttl = 0
             /\ resp.max = "0" /\ resp.used = "0" /\ resp.addr = 0
        ELSE /\ resp.active = TRUE
             /\ resp.max = ToString(maxValueLimit[1])
             /\ resp.used = ToString(valueUsed)
             /\ resp.addr = address

\* C6: once the session has been destroyed or now is past expires_at, the
\* signer holds no sealed key, no address, no limit and no usage, whether or
\* not a sign_order call has arrived since.
C6_WipedOnExpiry ==
    (enclave = Nil \/ now > expiresAt) =>
        /\ enclave = Nil
        /\ address = 0
        /\ maxValueLimit = Nil
        /\ valueUsed = 0

\* C7: Sign makes its checks in the order session, TTL, limit, and the first
\* one to fail decides the error: no session gives no_session; an expired
\* session gives session_expired also when the order is over the limit;
\* limit_exceeded comes only from a live session; the key is opened (a
\* signature, or the failure to open) only after all three have passed.
C7_FirstFailingCheckDecides ==
    [][ /\ SignCalled =>
            /\ enclave = Nil => resp'.err = ErrNoActiveSession
            /\ (enclave # Nil /\ isExpired) => resp'.err = ErrSessionExpired
            /\ resp'.err = ErrNoActiveSession => enclave = Nil
            /\ resp'.err = ErrSessionExpired => (enclave # Nil /\ isExpired)
            /\ resp'.err = ErrValueLimitExceeded => (enclave # Nil /\ ~isExpired)
            /\ resp'.err = ErrOpenEnclave =>
                   (enclave # Nil /\ ~isExpired /\ ~LimitExceeded(resp'.orderValue))
        /\ \A p \in Procs : SignApproved(p) =>
               (enclave # Nil /\ ~isExpired /\ ~LimitExceeded(local'[p].orderValue))
      ]_vars

\* An order larger than any limit has just been refused as session_expired.
C7_Witness ==
    /\ resp.err = ErrSessionExpired
    /\ resp.orderValue = 250000000
    /\ now > expiresAt

\* C8: signer operations are serialized: at most one Sign is between its
\* checks and its commit, that goroutine is the one holding the lock, no
\* other call changes a session attribute meanwhile, and notional_used is
\* at every moment the sum of the notionals approved in this session, as in
\* a sequential run of the same calls.
C8_Serialized ==
    /\ [](/\ Cardinality({p \in Procs : pc[p] = "Sign_commit"}) <= 1
          /\ \A p \in Procs : pc[p] = "Sign_commit" <=> mu = p
          /\ valueUsed = approvedSum)
    /\ [][ \A p \in Procs : pc[p] = "Sign_commit" =>
               \/ UNCHANGED sessionVars
               \/ /\ pc'[p] = "Status_call"
                  /\ valueUsed' = valueUsed + local[p].orderValue
                  /\ UNCHANGED <<enclave, address, expiresAt, maxValueLimit>>
         ]_vars

\* Two calls overlap: one goroutine is inside Sign's critical section while
\* the other, whose order was approved before, has yet to answer.
C8_Witness ==
    /\ pc[1] = "Sign_commit"
    /\ pc[2] = "Status_call"
    /\ mu = 1
    /\ valueUsed > 0

\* C9: the signer_address of every approved sign_order response is the
\* address signature recovery yields, whatever activate, destroy or expiry
\* happens while the call is in progress.
C9_AddressMatchesSigner ==
    (resp.op = "SignOrder" /\ resp.code = "OK") => resp.addr = Ecrecover(resp.sig)

\* C10: no_session and session_expired map to failed_precondition,
\* limit_exceeded to resource_exhausted, any other error of Sign to
\* internal; a response carries a signature only when Sign returned no error.
C10_ErrorMapping ==
    resp.op = "SignOrder" =>
        /\ resp.err = ErrNoActiveSession => resp.code = "FailedPrecondition"
        /\ resp.err = ErrSessionExpired => resp.code = "FailedPrecondition"
        /\ resp.err = ErrValueLimitExceeded => resp.code = "ResourceExhausted"
        /\ resp.err \notin {NoErr, ErrNoActiveSession, ErrSessionExpired, ErrValueLimitExceeded} =>
               resp.code = "Internal"
        /\ resp.sig # Nil => (resp.err = NoErr /\ resp.code = "OK")
        /\ resp.err # NoErr => (resp.sig = Nil /\ resp.code # "OK")
        /\ resp.code \in {"OK", "InvalidArgument", "FailedPrecondition", "ResourceExhausted", "Internal"}

\* An order has just been refused for the limit and answered resource_exhausted.
C10_Witness ==
    /\ resp.op = "SignOrder"
    /\ resp.err = ErrValueLimitExceeded
    /\ resp.code = "ResourceExhausted"

\* A request field the handler should refuse: no order, no domain, or a
\* maker_amount, taker_amount or token_id that is no decimal integer.
Malformed(r) ==
    \/ ~r.order
    \/ ~r.domain
    \/ SetString(r.maker) = Nil
    \/ SetString(r.taker) = Nil
    \/ SetString(r.token) = Nil

\* C11: a SignOrder request with a malformed field (order or domain missing,
\* maker_amount, taker_amount or token_id not a decimal integer) is answered
\* invalid_argument before anything is signed, and valueUsed stays as it was.
C11_MalformedRejected ==
    [][(req' # Nil /\ Malformed(req'[1])) =>
          /\ resp'.op = "SignOrder" /\ resp'.code = "InvalidArgument"
          /\ valueUsed' = valueUsed
          /\ \A p \in Procs : ~SignApproved(p)]_vars

\* The four conditions of can_trade as the specification words them.
Registered(k) == conns[k[1]] # "none"
ConnectionClosed(k) == Registered(k) => conns[k[1]] = "CircuitClosed"
Fresh(k) == markets[k] # NoMarket /\ cbNow - MarketOf(k).LastUpdate <= StaleThreshold
CooledOff(k) ==
    markets[k] # NoMarket /\
        (MarketOf(k).RecoveredAt = 0 \/ cbNow - MarketOf(k).RecoveredAt >= CoolOff)
Stale(k) == markets[k] # NoMarket /\ cbNow - MarketOf(k).LastUpdate > StaleThreshold

\* C12: CanTrade answers true only when no manual halt is in force, the
\* venue's registered transport (if any) has its circuit closed, the last
\* update is at most StaleThreshold old and the market never recovered or
\* recovered at least CoolOff ago; under a manual halt it is false for every
\* market, and without one the last three conditions decide it.
C12_CanTradeGate ==
    \A k \in CbKeys :
        /\ CanTrade(k) => (~halted /\ ConnectionClosed(k) /\ Fresh(k) /\ CooledOff(k))
        /\ halted => ~CanTrade(k)
        /\ ~halted => (CanTrade(k) <=> (ConnectionClosed(k) /\ Fresh(k) /\ CooledOff(k)))
        /\ cbResult # Nil /\ cbResult[1] = k => cbResult[2] = CanTrade(k)

\* CanTrade has just answered true for a market behind a registered
\* transport, with the last update exactly StaleThreshold old and the
\* recovery exactly CoolOff ago.
C12_Witness ==
    \E k \in CbKeys :
        /\ cbResult = <<k, TRUE>>
        /\ Registered(k)
        /\ cbNow - MarketOf(k).LastUpdate = StaleThreshold
        /\ cbNow - MarketOf(k).RecoveredAt = CoolOff

\* C13: once a market's data is stale, CanTrade stays false until a fresh
\* update has come and the cool-off has run after that update; no step out
\* of a stale state, a fresh update included, makes CanTrade true at once.
C13_StaleNeedsCoolOff ==
    [][\A k \in CbKeys : Stale(k) => ~CanTrade(k)']_vars

\* C14: a market whose Healthy flag is set has a last update that is at
\* most StaleThreshold old.
C14_HealthyMeansFresh ==
    \A k \in CbKeys :
        (markets[k] # NoMarket /\ MarketOf(k).Healthy) =>
            cbNow - MarketOf(k).LastUpdate <= StaleThreshold

\* recordUpdate has just returned for k
Updated(k) ==
    \/ cbPc = <<k>> /\ cbPc' = Nil
    \/ cbPc = Nil /\ cbPc' = Nil /\ markets'[k] # markets[k] /\ markets'[k][1].Healthy

\* C15: the first update after MarkStale sets RecoveredAt, and CanTrade is
\* false until CoolOff has passed since then, even with fresh data; with
\* fresh data it is true from then on; an update for a market that is
\* healthy leaves RecoveredAt alone.
C15_CoolOffAfterMarkStale ==
    /\ [](\A k \in CbKeys :
            /\ (recovered[k] /\ cbNow - MarketOf(k).RecoveredAt < CoolOff) =>
                   (~CanTrade(k) /\ cbResult # <<k, TRUE>>)
            /\ (recovered[k] /\ cbNow - MarketOf(k).RecoveredAt >= CoolOff /\ Fresh(k)
                    /\ ~halted /\ ConnectionClosed(k)) => CanTrade(k))
    /\ [][\A k \in CbKeys :
            /\ (markets[k] # NoMarket /\ ~MarketOf(k).Healthy /\ markets'[k][1].Healthy) =>
                   cbPc' = <<k>>
            /\ (cbPc = <<k>> /\ Updated(k)) =>
                   /\ markets'[k][1].RecoveredAt = markets'[k][1].LastUpdate
                   /\ recovered'[k]
                   /\ ~CanTrade(k)'
            /\ (cbPc = Nil /\ markets[k] # NoMarket /\ MarketOf(k).Healthy) =>
                   markets'[k][1].RecoveredAt = MarketOf(k).RecoveredAt]_vars

\* A market that was marked stale and recovered has been updated again
\* since, and CanTrade has just answered true exactly CoolOff after the
\* recovery.
C15_Witness ==
    \E k \in CbKeys :
        /\ recovered[k]
        /\ cbResult = <<k, TRUE>>
        /\ cbNow - MarketOf(k).RecoveredAt = CoolOff
        /\ MarketOf(k).LastUpdate > MarketOf(k).RecoveredAt

\* C16: when a venue's transport goes from circuit open back to closed,
\* CanTrade is false for the venue's markets until CoolOff has passed since
\* the reconnection; at the reconnection itself it is false.
C16_CoolOffAfterReconnect ==
    [][\A k \in CbKeys :
          (conns[k[1]] = "CircuitOpen" /\ conns'[k[1]] = "CircuitClosed") => ~CanTrade(k)']_vars

\* updates the worker of adapter a has taken off its channel so far
Taken(a) == emitted[a] - Len(srcQ[a])
\* worker a has just run distribute's first / second loop
FilteredLoopDone(a) == wpc[a] = "filtered" /\ wpc'[a] = "all"
UnifiedLoopDone(a) == wpc[a] = "all" /\ wpc'[a] = "recv"

\* C17: what a subscriber has been handed for one (venue, market) is an
\* order-preserving part of what the hub took in for it: the updates come
\* in the order the adapter sent them, none twice, none that the hub has
\* not taken in.
C17_OrderWithinPair ==
    \A c \in Subscribers :
        /\ \A i \in 1..Len(sent[c]) : sent[c][i].n \in 1..Taken(sent[c][i].src)
        /\ \A i, j \in 1..Len(sent[c]) :
               (i < j /\ sent[c][i].key = sent[c][j].key) =>
                   (sent[c][i].src = sent[c][j].src /\ sent[c][i].n < sent[c][j].n)

\* A filtered subscriber holds two updates of its market with an update
\* of the same adapter between them that it did not get.
C17_Witness ==
    \E c \in FilteredSubs :
        /\ Len(sent[c]) >= 2
        /\ sent[c][1].key = sent[c][2].key
        /\ sent[c][2].n >= sent[c][1].n + 2

\* C18: distribute offers the update to every subscriber under its key and
\* to every unified subscriber; one with room gets it, one whose channel is
\* full loses it and nobody else does, and a worker holding an update can
\* always go on, whatever the channels hold.
C18_NonBlockingDispatch ==
    /\ [](\A a \in Adapters :
            /\ wpc[a] = "filtered" => ENABLED DistributeFiltered(a)
            /\ wpc[a] = "all" => ENABLED DistributeAll(a))
    /\ [][\A a \in Adapters, c \in Subscribers :
            /\ (FilteredLoopDone(a) /\ c \in FilteredSubs /\ Matches(c, cur[a])) =>
                   sent'[c] = IF HasRoom(c) THEN Append(sent[c], cur[a]) ELSE sent[c]
            /\ (UnifiedLoopDone(a) /\ c \in UnifiedSubs /\ subs[c] # Nil) =>
                   sent'[c] = IF HasRoom(c) THEN Append(sent[c], cur[a]) ELSE sent[c]]_vars

\* Two subscribers of one market: one has not read its first update and
\* its channel is full, the other went on to get the next update as well.
C18_Witness ==
    \E c1, c2 \in FilteredSubs :
        /\ c1 # c2
        /\ subs[c1] # Nil /\ subs[c1] = subs[c2]
        /\ Len(sent[c2]) = 1 /\ read[c2] = 0 /\ ~HasRoom(c2)
        /\ Len(sent[c1]) = 2
        /\ sent[c1][1] = sent[c2][1]

\* C19: a filtered subscriber is handed only updates of its own venue and
\* market; a unified subscriber with room is handed the update of whichever
\* registered adapter's worker is dispatching; a subscriber opened after
\* Run began is served by every later dispatch under its key.
C19_Routing ==
    /\ [](\A c \in FilteredSubs : \A i \in 1..Len(sent[c]) :
            subs[c] # Nil /\ sent[c][i].key = subs[c][1])
    /\ [](\A a \in Adapters : wpc[a] # "recv" => (a \in sources /\ cur[a].src = a))
    /\ [][\A a \in Adapters, c \in Subscribers :
            /\ (UnifiedLoopDone(a) /\ c \in UnifiedSubs /\ subs[c] # Nil /\ HasRoom(c)) =>
                   sent'[c] = Append(sent[c], cur[a])
            /\ (FilteredLoopDone(a) /\ c \in FilteredSubs /\ subs[c] = <<cur[a].key>> /\ HasRoom(c)) =>
                   sent'[c] = Append(sent[c], cur[a])
            /\ (FilteredLoopDone(a) /\ c \in FilteredSubs /\ subs[c] # <<cur[a].key>>) =>
                   sent'[c] = sent[c]]_vars

\* The unified subscriber has been handed updates of both adapters, the
\* first update of one of them among these; a filtered subscriber of that
\* update's market was opened too late for it and holds a later one.
C19_Witness ==
    \E c \in FilteredSubs, i, j \in 1..Len(sent["u1"]) :
        /\ sent[c] # <<>>
        /\ sent[c][1].n > 1
        /\ sent["u1"][i] = [src |-> sent[c][1].src, n |-> 1, key |-> sent[c][1].key]
        /\ sent["u1"][j].src # sent[c][1].src

\* the best bid and best ask of a book as the specification defines them:
\* the highest bid price and the lowest ask price, 0 for an empty side
Prices(levels) == {levels[i] : i \in 1..Len(levels)}
MaxBid(bids) == IF bids = <<>> THEN 0 ELSE CHOOSE p \in Prices(bids) : \A q \in Prices(bids) : q <= p
MinAsk(asks) == IF asks = <<>> THEN 0 ELSE CHOOSE p \in Prices(asks) : \A q \in Prices(asks) : p <= q
SameBest(book, u) ==
    book # Nil /\ MaxBid(book[1]) = MaxBid(u.bids) /\ MinAsk(book[2]) = MinAsk(u.asks)

\* C20: an update given to write whose best bid and best ask equal those of
\* the update before it for the same key issues no HSet; the first update
\* for a key, and one whose best bid or best ask differs from its
\* predecessor's, issues exactly one, carrying the new best prices; nothing
\* kept for any other key changes.
C20_WriterIdempotence ==
    [][buf' # buf /\ Len(buf') < Len(buf) =>
          LET u == Head(buf)
              key == RedisKey(u)
          IN  /\ SameBest(lastBook[key], u) => (hsets' = hsets /\ wrote' = Nil)
              /\ ~SameBest(lastBook[key], u) =>
                     /\ hsets'[key] = hsets[key] + 1
                     /\ wrote' = <<key, FormatFloat(MaxBid(u.bids)), FormatFloat(MinAsk(u.asks))>>
              /\ \A k \in RedisKeys \ {key} :
                     hsets'[k] = hsets[k] /\ last'[k] = last[k] /\ lastBook'[k] = lastBook[k]]_vars

\* Both keys have been written once, and an update for one of them with
\* other levels but the same best prices as its predecessor has just gone
\* through write without an HSet.
C20_Witness ==
    \E k1, k2 \in RedisKeys :
        /\ k1 # k2
        /\ hsets[k1] = 1 /\ hsets[k2] = 1
        /\ fed >= 3 /\ buf = <<>> /\ wrote = Nil
        /\ lastBook[k1] = <<<<50, 48>>, <<56, 54>>>>

\* the ingestion goroutine has just taken an update off the feed
Ingested == fed' # fed

\* C21: when rw.buf is full and another update comes off the feed, the
\* oldest update waiting in the buffer is let go and the new one is kept:
\* the buffer moves up by one and ends with the update that arrived.
C21_DropsOldestKeepsNewest ==
    [][(Ingested /\ Len(buf) = BufCap) =>
          \E u \in WriterUpdates : buf' = Append(Tail(buf), u)]_vars

\* an event has just gone onto ub.events
EventEmitted == Len(events') = Len(events) + 1
NewEvent == events'[Len(events')]

\* C22: every event that goes onto ub.events has spread = bid - ask above
\* the threshold and a non-zero ask, and its bid and ask are the best bid
\* and best ask its two exchanges have in the pair state at that moment,
\* however the two consumeSide goroutines of the pair interleave.
C22_EventMatchesPairState ==
    [][EventEmitted =>
          /\ NewEvent.Spread = NewEvent.Bid - NewEvent.Ask
          /\ NewEvent.Spread > Threshold
          /\ NewEvent.Ask # 0
          /\ NewEvent.Bid = states[NewEvent.BidExchange].BestBid
          /\ NewEvent.Ask = states[NewEvent.AskExchange].BestAsk]_vars

\* the goroutine x finishes checkArbitrage's first, second direction
TestedPolyBidKalshiAsk(x) == cons[x].pc = "dir1" /\ cons'[x].pc = "dir2"
TestedKalshiBidPolyAsk(x) == cons[x].pc = "dir2" /\ cons'[x].pc = "recv"
HasRoomForEvent == Len(events) < EventsCap

\* C23: each update applied is followed by a test of both directions on the
\* pair state the update left.  The PolyBid->KalshiAsk event goes out iff
\* Kalshi's best ask is non-zero, Poly's best bid less that ask is strictly
\* above the threshold, and ub.events has room; KalshiBid->PolyAsk likewise
\* with the exchanges swapped.  Nothing else goes out, and a full channel
\* costs the event, never the step.
C23_BothDirectionsTested ==
    [][\A x \in Adapters :
          /\ TestedPolyBidKalshiAsk(x) =>
                LET bid == cons[x].poly.BestBid
                    ask == cons[x].kalshi.BestAsk
                IN  IF ask # 0 /\ bid - ask > Threshold /\ HasRoomForEvent
                    THEN /\ EventEmitted
                         /\ NewEvent = ArbitrageEvent("PolyBidKalshiAsk", "polymarket", "kalshi", bid, ask)
                    ELSE events' = events
          /\ TestedKalshiBidPolyAsk(x) =>
                LET bid == cons[x].kalshi.BestBid
                    ask == cons[x].poly.BestAsk
                IN  IF ask # 0 /\ bid - ask > Threshold /\ HasRoomForEvent
                    THEN /\ EventEmitted
                         /\ NewEvent = ArbitrageEvent("KalshiBidPolyAsk", "kalshi", "polymarket", bid, ask)
                    ELSE events' = events
          /\ (cons[x].pc = "recv" /\ cons'[x].pc # "recv") =>
                /\ cons'[x].pc = "dir1"
                /\ cons'[x].poly = states'["polymarket"]
                /\ cons'[x].kalshi = states'["kalshi"]]_vars
\* an event waits in the full channel while a goroutine holds a crossed pair
\* it is about to test: the drop case
C23_Witness ==
    \E x \in Adapters :
        /\ cons[x].pc = "dir2"
        /\ cons[x].poly.BestAsk # 0
        /\ cons[x].kalshi.BestBid - cons[x].poly.BestAsk > Threshold
        /\ ~HasRoomForEvent
        /\ events[1].Direction = "PolyBidKalshiAsk"

\* C24: whatever opens, sends, closes and inbound frames have happened, each
\* frame waiting on a tunnel's Messages() came in on a connection opened for
\* that tunnel's own (user, venue); a frame of one key is never on the stream
\* of a tunnel with another key.
C24_TunnelIsolation ==
    \A t \in Tuns : \A n \in 1..Len(tun[t].msgs) :
        tun[tun[t].msgs[n]].key = tun[t].key
\* two tunnels under different keys, each with a frame of its own waiting
C24_Witness ==
    \E t, j \in Tuns :
        /\ tun[t].key # tun[j].key
        /\ tun[t].msgs = <<t>>
        /\ tun[j].msgs = <<j>>

NoCallInFlight == \A c \in Callers : tmCalls[c] = Idle

\* C25: once every Open and Close has returned, each tunnel still open is
\* the one registered under its key: so there is at most one open tunnel
\* per key, and a tunnel that has lost its place in tm.tunnels is closed,
\* also after two Opens for the same key that ran at the same time.
C25_OneOpenTunnelPerKey ==
    NoCallInFlight => \A t \in Tuns : IsOpen(t) => tunnels[tun[t].key] = <<t>>

\* caller c is inside Close or CloseAll, and the step taken is its return
InClose(c) == tmCalls[c] # Idle /\ tmCalls[c].op = "close"
CloseReturns(c) == InClose(c) /\ tmCalls'[c] = Idle
\* Send(k) by a caller free to call returns the no-session error and leaves
\* every outbox as it is
SendFails(c, k) ==
    /\ ENABLED (SendGet(c, k) /\ tmResult' = <<"no active session", k>> /\ tun' = tun)
    /\ ~ENABLED (SendGet(c, k) /\ (tmCalls'[c] # Idle \/ tmResult' = Nil \/ tun' # tun))

\* C26: Close(k) and CloseAll take their tunnels out of tm.tunnels, so that
\* Get finds none until an Open registers one, and by the time the call
\* returns each tunnel taken out has its stream closed; Close(k) leaves the
\* tunnels of other keys in the map, and a stream is closed only for a
\* tunnel a Close or CloseAll took out or an Open for its own key replaced.  While no tunnel is under a
\* key, closed or never opened, Send for it returns an error and enqueues
\* nothing.
C26_ClosedMeansGone ==
    /\ [](\A k \in TunnelKeys : \A c \in Callers :
            (tunnels[k] = Nil /\ MayCall(c)) => SendFails(c, k))
    /\ [][\A c \in Callers :
            /\ (MayCall(c) /\ InClose(c)') =>
                  /\ \A k \in TunnelKeys :
                        tunnels'[k] = IF tmCalls'[c].key \in {k, <<"all">>} THEN Nil ELSE tunnels[k]
                  /\ tmCalls'[c].took = Registered_Tunnels \ Registered_Tunnels'
                  /\ tun' = tun
            /\ CloseReturns(c) => \A t \in tmCalls[c].took : tun'[t].closed
            /\ \A t \in Tuns :
                  (IsOpen(t) /\ tun'[t].closed) =>
                      \/ \E d \in Callers : InClose(d) /\ t \in tmCalls[d].took
                      \/ tunnels[tun[t].key] = <<t>> /\ tunnels'[tun[t].key] = Nil
            /\ \A k \in TunnelKeys :
                  (tunnels[k] = Nil /\ tunnels'[k] # Nil) =>
                      \E d \in Callers : tmCalls[d] # Idle /\ tmCalls[d].op = "register"
                                         /\ tmCalls[d].key = k]_vars
\* Close(user-a) has returned: its tunnel is closed with a frame still on the
\* stream, Send for user-a has just failed, and user-b's tunnel is open
C26_Witness ==
    /\ tmResult = <<"no active session", <<"user-a", "kalshi">>>>
    /\ tunnels[<<"user-a", "kalshi">>] = Nil
    /\ tunnels[<<"user-b", "kalshi">>] # Nil
    /\ \E t \in Tuns : tun[t].key = <<"user-a", "kalshi">> /\ tun[t].closed
    /\ IsOpen(tunnels[<<"user-b", "kalshi">>][1])

InReconnect == rl \in {"wait", "dial"}

\* C27: Connect leaves the circuit closed.  readLoop leaves its read only by
\* returning on a cancelled context or, on a read error or a heartbeat
\* timeout, by closing the socket and opening the circuit; the circuit is
\* open all through reconnect's waits and dials, and goes from open to
\* closed in no step but a dial that succeeds.
C27_CircuitFollowsConnection ==
    /\ [](InReconnect => circuit = CircuitOpen /\ conn = "closed")
    /\ [][/\ (rl = "off" /\ rl' = "read") => circuit' = CircuitClosed /\ conn' = "up"
          /\ (rl = "read" /\ rl' # "read") =>
                \/ ctxDone /\ rl' = "done"
                \/ ReadErrs(conn) /\ rl' = "wait" /\ conn' = "closed" /\ circuit' = CircuitOpen
          /\ (circuit = CircuitOpen /\ circuit' = CircuitClosed) =>
                rl = "dial" /\ rl' = "read" /\ conn' = "up"]_vars
\* the socket went quiet, two dials failed, the third went through
C27_Witness ==
    /\ circuit = CircuitClosed
    /\ rl = "read"
    /\ conn = "up"
    /\ failed = 2

\* min(initial * factor^(k-1), cap)
Backoff(k) ==
    LET d == BackoffInitial * BackoffFactor ^ (k - 1)
    IN  IF d < BackoffMax THEN d ELSE BackoffMax
\* the wait before the dial to come, or the one before the dial under way,
\* is Backoff of that dial's number; a dial that fails with the context live
\* is followed by another wait; reconnect gives up only on a cancelled context
BackoffHolds ==
    /\ [](InReconnect => delay = Backoff(failed + 1))
    /\ [][/\ (rl = "read" /\ rl' = "wait") => delay' = BackoffInitial
          /\ (rl = "dial" /\ ~ctxDone) => rl' \in {"dial", "wait", "read"}
          /\ (InReconnect /\ rl' = "done") => ctxDone]_vars

\* C28: the k-th dial of a reconnect is preceded by a wait of
\* min(initial * factor^(k-1), cap), from 50 ms, doubling, at most 5 s,
\* from the initial value again in each reconnect; dials go on until one
\* succeeds or the context is cancelled, and once it is cancelled the loop
\* returns: no wait ends in a dial, no connection is made.
C28_BackoffUntilCancelled ==
    /\ BackoffHolds
    /\ [][(ctxDone /\ InReconnect) =>
              /\ rl' \in {rl, "done"}
              /\ conn' = conn /\ circuit' = circuit]_vars
\* the delay had reached the cap when the context was cancelled, and the
\* loop has returned
C28_Witness ==
    /\ rl = "done"
    /\ ctxDone
    /\ circuit = CircuitOpen
    /\ failed = MaxFailedDials
    /\ delay = BackoffMax

\* C29: a failed WriteMessage, like a failed ReadMessage, has the socket
\* closed and the circuit open by the time it has been handled, the
\* transport reconnecting.
C29_WriteErrorReconnects ==
    (wsErr = <<"write">> /\ ~ctxDone) =>
        /\ conn = "closed"
        /\ circuit = CircuitOpen
        /\ InReconnect

\* C30: each decoder has its channel in its WSClient's ws.subs before
\* readLoop reads: whatever the order of New, Connect and Run, no frame is
\* fanned out while a decoder that exists is not subscribed.
C30_SubscribedBeforeReading ==
    \A d \in Decoders : ~dec[d].missed

\* the message handled in the step, when the step handled one
Handled == kaMsg' # Nil /\ kaFed' = kaFed + 1
Msg == kaMsg'[1]
LevelSet(levels) == {levels[i] : i \in 1..Len(levels)}
SideOf(book, side) == IF side = "no" THEN book.No ELSE book.Yes
OtherSide(side) == IF side = "no" THEN "yes" ELSE "no"
\* the book of the message's ticker is what the message makes of it: a
\* snapshot's yes and no levels, or the old book with the delta added at
\* (side, price) and the level gone when nothing is left of it; a delta for
\* a ticker without a book leaves the books alone
BookFollowsMessage ==
    LET t == Msg.ticker
    IN  /\ \A o \in Tickers \ {t} : books'[o] = books[o]
        /\ Msg.type = "orderbook_snapshot" =>
              /\ books'[t] # Nil
              /\ books'[t][1].Yes = LevelSet(Msg.yes)
              /\ books'[t][1].No = LevelSet(Msg.no)
        /\ (Msg.type = "orderbook_delta" /\ books[t] = Nil) => books'[t] = Nil
        /\ (Msg.type = "orderbook_delta" /\ books[t] # Nil) =>
              LET old == books[t][1]
                  new == books'[t][1]
                  sum == At(SideOf(old, Msg.side), Msg.price) + Msg.delta
              IN  /\ SideOf(new, OtherSide(Msg.side)) = SideOf(old, OtherSide(Msg.side))
                  /\ \A p \in KaPrices \ {Msg.price} :
                        /\ Has(SideOf(new, Msg.side), p) = Has(SideOf(old, Msg.side), p)
                        /\ At(SideOf(new, Msg.side), p) = At(SideOf(old, Msg.side), p)
                  /\ Has(SideOf(new, Msg.side), Msg.price) = (sum > 0)
                  /\ sum > 0 => At(SideOf(new, Msg.side), Msg.price) = sum
Applied == Msg.type = "orderbook_snapshot" \/ books[Msg.ticker] # Nil
\* the one BookUpdate of the resulting book: yes levels as bids, no levels as
\* asks, prices as cents over 100
ResultingUpdate ==
    LET new == books'[Msg.ticker][1]
    IN  [Exchange |-> "kalshi", AssetID |-> Msg.ticker,
         Bids |-> {[Price |-> <<e[1], 100>>, Size |-> e[2]] : e \in new.Yes},
         Asks |-> {[Price |-> <<e[1], 100>>, Size |-> e[2]] : e \in new.No}]

\* C31 as stated: a snapshot replaces the ticker's book, a delta adds to the
\* quantity at (side, price) and removes the level at <= 0, a delta without
\* a snapshot before it changes and emits nothing, and every snapshot or
\* delta applied puts exactly one BookUpdate of the resulting book on
\* ka.updates.
C31_OneUpdatePerMessage ==
    [][Handled =>
          /\ BookFollowsMessage
          /\ IF Applied THEN updates' = Append(updates, ResultingUpdate)
             ELSE updates' = updates]_vars

\* C31 as the code has it: the same book maintenance; the BookUpdate of the
\* resulting book goes onto ka.updates when the channel has room and is
\* dropped when it is full.
C31_OneUpdateUnlessFull ==
    [][Handled =>
          /\ BookFollowsMessage
          /\ IF Applied /\ Len(updates) < KaUpdatesCap
             THEN updates' = Append(updates, ResultingUpdate)
             ELSE updates' = updates]_vars
\* snapshot yes [[48,300]], no [[54,200]], then delta (48, -100, yes): the
\* update on the channel is bid 0.48 @ 200, ask 0.54 @ 200
C31_Witness ==
    /\ kaMsg = <<[type |-> "orderbook_delta", ticker |-> "FED-DEC", price |-> 48,
                  delta |-> -100, side |-> "yes"]>>
    /\ books["FED-DEC"] = <<[Yes |-> {<<48, 200>>}, No |-> {<<54, 200>>}]>>
    /\ updates = <<[Exchange |-> "kalshi", AssetID |-> "FED-DEC",
                    Bids |-> {[Price |-> <<48, 100>>, Size |-> 200]},
                    Asks |-> {[Price |-> <<54, 100>>, Size |-> 200]}]>>

\* ---- order validator claims
Validated == vres.n > 0
SideOk(o) == o.Side \in {"buy", "sell"}
TypeOk(o) == o.Type \in {"limit", "market", "stop_loss"}
VenueOk(o) == o.Exchange \in {"polymarket", "kalshi"}
PriceOk(o) ==
    \/ o.Type = "market"
    \/ /\ VenueOk(o)
       /\ DefaultConstraints[o.Exchange].MinPrice < o.Price
       /\ o.Price < DefaultConstraints[o.Exchange].MaxPrice
QuantityOk(o) == VenueOk(o) /\ o.Quantity >= DefaultConstraints[o.Exchange].MinLotSize
FieldsOk(o) == SideOk(o) /\ TypeOk(o) /\ VenueOk(o) /\ PriceOk(o) /\ QuantityOk(o)
FirstViolation(o, answer) ==
    IF ~SideOk(o) THEN "ErrInvalidSide"
    ELSE IF ~TypeOk(o) THEN "ErrInvalidType"
    ELSE IF ~VenueOk(o) THEN "unknown exchange"
    ELSE IF ~PriceOk(o) THEN "ErrPriceOutOfRange"
    ELSE IF ~QuantityOk(o) THEN "ErrQuantityTooLow"
    ELSE IF ~answer THEN "ErrCircuitOpen"
    ELSE "nil"

\* C32: Validate checks side, type, known venue, price range (limit and
\* stop-loss only, strictly between min_price and max_price), quantity >=
\* min_lot and the breaker's can_trade, in that order; the error returned is
\* that of the first violated check, can_trade is asked only when every
\* earlier check passed, and the status is validated iff every check passes
\* and rejected otherwise.
C32_FirstViolationDecides ==
    Validated =>
        /\ vres.err = FirstViolation(order[1], vres.answer)
        /\ vres.asked <=> FieldsOk(order[1])
        /\ order[1].Status = "validated" <=> (FieldsOk(order[1]) /\ vres.answer)
        /\ order[1].Status = "rejected" <=> ~(FieldsOk(order[1]) /\ vres.answer)

\* A limit order priced exactly at max_price with too small a quantity is
\* rejected for its price, and the breaker is not consulted.
C32_Witness ==
    /\ Validated
    /\ order[1].Type = "limit"
    /\ order[1].Side = "buy"
    /\ order[1].Exchange = "kalshi"
    /\ order[1].Price = 100
    /\ order[1].Quantity = 50
    /\ vres.err = "ErrPriceOutOfRange"
    /\ ~vres.asked
    /\ order[1].Status = "rejected"

StatusRank(s) ==
    CASE s = "new" -> 1
      [] s = "validated" -> 2
      [] s = "pending" -> 3
      [] s \in {"filled", "cancelled", "rejected"} -> 4

\* C33: no operation moves an order's status backward along new -> validated
\* -> pending -> {filled | cancelled | rejected}; in particular a Validate
\* call on an order whose status is no longer new does not.
C33_StatusNeverMovesBack ==
    [][vres'.n = vres.n + 1 => StatusRank(order'[1].Status) >= StatusRank(order[1].Status)]_vars

\* C35: CanTrade is false for a market that never received an update; the
\* first update for a market sets RecoveredAt (and LastUpdate) to its time,
\* RecoveredAt never moves back afterwards, and CanTrade answers true only
\* when CoolOff has elapsed since RecoveredAt - so a market is held back for
\* CoolOff after its first update although it was never marked stale.
C35_FirstUpdateStartsCoolOff ==
    /\ [](cbResult # Nil /\ cbResult[2] =>
            /\ markets[cbResult[1]] # NoMarket
            /\ MarketOf(cbResult[1]).RecoveredAt # 0
            /\ cbNow - MarketOf(cbResult[1]).RecoveredAt >= CoolOff)
    /\ [][\A k \in CbKeys :
            /\ markets[k] = NoMarket /\ markets'[k] # NoMarket =>
                  /\ markets'[k][1].RecoveredAt = cbNow
                  /\ markets'[k][1].LastUpdate = cbNow
            /\ markets[k] # NoMarket =>
                  /\ markets'[k] # NoMarket
                  /\ markets'[k][1].RecoveredAt >= MarketOf(k).RecoveredAt]_vars

\* A market that was never marked stale, on a healthy connection and with
\* fresh data, is refused because its first update is less than CoolOff old.
C35_Witness ==
    /\ cbResult # Nil
    /\ ~cbResult[2]
    /\ ~halted
    /\ conns[cbResult[1][1]] # "CircuitOpen"
    /\ markets[cbResult[1]] # NoMarket
    /\ MarketOf(cbResult[1]).Healthy
    /\ ~recovered[cbResult[1]]
    /\ cbPc = Nil
    /\ cbNow - MarketOf(cbResult[1]).LastUpdate <= StaleThreshold
    /\ cbNow - MarketOf(cbResult[1]).RecoveredAt = CoolOff - 1

\* C36: within one session notional_used is never negative and an approved
\* sign_order never leaves it below its previous value, whatever parseable
\* maker_amount the request carries.
C36_NotionalNeverGivenBack ==
    /\ [](valueUsed >= 0)
    /\ [][\A p \in Procs :
            (pc[p] = "Sign_commit" /\ pc'[p] = "Status_call") => valueUsed' >= valueUsed]_vars

\* C38: whenever write has finished with an update, the (bid, ask) rw.last
\* holds for a key is the (bid, ask) the cache holds under that key, also
\* after an HSet that failed.
C38_LastEqualsCache ==
    \A k \in RedisKeys : last[k] = cache[k]

Uncrossed(s) == s.BestBid = 0 \/ s.BestAsk = 0 \/ s.BestBid <= s.BestAsk
BothVenuesUncrossed(x) == Uncrossed(cons[x].poly) /\ Uncrossed(cons[x].kalshi)

\* C39: with threshold >= 0, an update applied to a pair whose two venue
\* books are each uncrossed puts out at most one event - when the test of
\* PolyBid->KalshiAsk has put one out, the test of KalshiBid->PolyAsk on the
\* same pair state puts out none - and no event goes out for a pair state
\* in which a venue has delivered nothing yet (its side is still zero).
C39_AtMostOneDirection ==
    [][\A x \in Adapters :
          /\ (TestedKalshiBidPolyAsk(x) /\ BothVenuesUncrossed(x) /\ Threshold >= 0
                  /\ cons[x].sent = 1) => events' = events
          /\ ((TestedPolyBidKalshiAsk(x) \/ TestedKalshiBidPolyAsk(x)) /\ EventEmitted) =>
                (cons[x].poly # ZeroSide /\ cons[x].kalshi # ZeroSide)]_vars

\* Polymarket bids 0.70 against asks of 0.75, Kalshi asks 0.52 with no bids:
\* both books uncrossed, the PolyBid->KalshiAsk event has gone out and been
\* read, and the goroutine is about to test the other direction with room
\* for an event.
C39_Witness ==
    \E x \in Adapters :
        /\ cons[x].pc = "dir2"
        /\ cons[x].sent = 1
        /\ cons[x].poly = [BestBid |-> 70, BestAsk |-> 75]
        /\ cons[x].kalshi = [BestBid |-> 0, BestAsk |-> 52]
        /\ events = <<>>

\* C37: however Close interleaves with readLoop, a reconnect finishing
\* meanwhile included: no frame is sent on a subscriber channel Close has
\* closed, each subscriber channel and ws.done is closed once only, and no
\* frame is fanned out once Close has returned.
C37_CloseIsClean ==
    /\ [](rpc[1] # "panic")
    /\ [](cpc[1] # "panic" /\ doneCh <= 1)
    /\ [][(rpc[1] = "fanOut" /\ rpc' # rpc) => cpc[1] # "returned"]_vars

\* C34: once the context is cancelled the transport's read loop, wherever it
\* is - reading, waiting in reconnect, dialling - eventually returns, and no
\* dial of a reconnect is started after the cancellation.
C34_CancelStopsTransport ==
    /\ (ctxDone /\ rl # "off") ~> (rl = "done")
    /\ [][ctxDone => ~(rl # "dial" /\ rl' = "dial")]_vars

\* C40: a market whose subscription reached the venue on a connection that
\* has since been lost is subscribed again on the connection the redial
\* makes, and frames for it arrive again.
C40_SubscriptionsSurviveReconnect ==
    \A m \in SubMarkets :
        /\ (m \in sentOn /\ link = "closed") ~> (link = "up" /\ m \in venueSubs)
        /\ (m \in sentOn /\ link = "closed") ~> (m \in streamed)

====
